---------------------------- MODULE Spec2Model ----------------------------
(***************************************************************************)
(* Model of the peer-to-peer collaboration core of the file-sharing tool   *)
(* (the Share component, src/src/pages/WordCounter.tsx from line 62 on):   *)
(* the peer directory and its mirror, the connection-request workflow,     *)
(* the mesh peer-list exchange and the chunked file transfer.              *)
(*                                                                         *)
(* React state and its mirrors.  Every useState value X of the component   *)
(* has a mirror XRef that a useEffect copies from X after a render.  The   *)
(* model keeps both: a functional setX updater acts on X at once (updaters *)
(* are applied in order to the latest state), and the action Render copies *)
(* X to XRef (and to the render-time closures of the UI callbacks).  The   *)
(* handlers read what the code reads: the mirror where the code reads      *)
(* XRef.current, the rendered value where it reads the closure.            *)
(***************************************************************************)
EXTENDS Integers, Sequences, FiniteSets, TLC

(***************************************************************************)
(* Section 1.  Chunk encoding: slice, base64 encode, base64 decode.        *)
(***************************************************************************)

\* Bounds of the codec specification.
MaxLen == 4
MaxC == 3

\* Byte values the codec specification draws file contents from.
ByteSamples == {0, 3, 128, 255}

\* The padding symbol '=' of base64; symbols 0..63 are the alphabet.
B64Pad == 64

\* sendFileChunks: the sub-block size of the String.fromCharCode loop.
encodeChunkSize == 16384

Min(a, b) == IF a < b THEN a ELSE b

\* Math.ceil(a / b) for a >= 0, b > 0.
CeilDiv(a, b) == (a + b - 1) \div b

\* file.slice(start, end) on a byte sequence (0-based, end exclusive).
Slice(bytes, start, end) == SubSeq(bytes, start + 1, Min(end, Len(bytes)))

\* The binaryString loop of sendFileChunks: the chunk's bytes as char codes,
\* appended one sub-block of encodeChunkSize bytes at a time.
RECURSIVE BinaryString(_, _)
BinaryString(bytes, j) ==
    IF j >= Len(bytes) THEN <<>>
    ELSE Slice(bytes, j, j + encodeChunkSize) \o BinaryString(bytes, j + encodeChunkSize)

\* btoa: three char codes (0..255) to four base64 symbols, '=' padded.
RECURSIVE btoa(_)
btoa(s) ==
    IF Len(s) = 0 THEN <<>>
    ELSE IF Len(s) = 1 THEN
        << s[1] \div 4, (s[1] % 4) * 16, B64Pad, B64Pad >>
    ELSE IF Len(s) = 2 THEN
        << s[1] \div 4, (s[1] % 4) * 16 + (s[2] \div 16), (s[2] % 16) * 4, B64Pad >>
    ELSE
        << s[1] \div 4, (s[1] % 4) * 16 + (s[2] \div 16),
           (s[2] % 16) * 4 + (s[3] \div 64), s[3] % 64 >>
        \o btoa(SubSeq(s, 4, Len(s)))

\* atob, step 1: a string whose length is a multiple of four loses up to two
\* trailing '='.
StripPad(t) ==
    IF Len(t) % 4 = 0 /\ Len(t) >= 2 /\ t[Len(t)] = B64Pad /\ t[Len(t) - 1] = B64Pad
        THEN SubSeq(t, 1, Len(t) - 2)
    ELSE IF Len(t) % 4 = 0 /\ Len(t) >= 1 /\ t[Len(t)] = B64Pad
        THEN SubSeq(t, 1, Len(t) - 1)
    ELSE t

\* atob, step 2: four symbols give three bytes; a tail of two symbols gives one
\* byte (four bits dropped), a tail of three gives two bytes (two bits dropped).
RECURSIVE atobGroups(_)
atobGroups(t) ==
    IF Len(t) < 2 THEN <<>>
    ELSE IF Len(t) = 2 THEN
        << t[1] * 4 + (t[2] \div 16) >>
    ELSE IF Len(t) = 3 THEN
        << t[1] * 4 + (t[2] \div 16), (t[2] % 16) * 16 + (t[3] \div 4) >>
    ELSE
        << t[1] * 4 + (t[2] \div 16), (t[2] % 16) * 16 + (t[3] \div 4),
           (t[3] % 4) * 64 + t[4] >>
        \o atobGroups(SubSeq(t, 5, Len(t)))

\* atob throws on a symbol outside the alphabet and on a length of 4k+1.
atobThrows(t) ==
    \/ \E i \in 1..Len(StripPad(t)) : StripPad(t)[i] \notin 0..63
    \/ Len(StripPad(t)) % 4 = 1

\* A decoder that keeps the padding symbols as data.
atobKeepPad(t) == atobGroups(t)

atob(t) == atobGroups(StripPad(t))

\* handlePeerData, file-chunk: byteArray[i] = byteString.charCodeAt(i).
DecodeChunk(chunk) == atob(chunk)

\* sendFileChunks: the base64 payload of the chunk with index i.
EncodeChunk(bytes, i, c) == btoa(BinaryString(Slice(bytes, i * c, Min(i * c + c, Len(bytes))), 0))

RECURSIVE Concat(_)
Concat(chunks) ==
    IF Len(chunks) = 0 THEN <<>> ELSE Head(chunks) \o Concat(Tail(chunks))

RECURSIVE SeqsUpTo(_, _)
SeqsUpTo(S, n) ==
    IF n = 0 THEN { <<>> }
    ELSE LET shorter == SeqsUpTo(S, n - 1)
         IN  shorter \cup { Append(q, x) : q \in { r \in shorter : Len(r) = n - 1 }, x \in S }

VARIABLES
    cData,      \* the file's bytes
    cC,         \* the chunk size
    cNext,      \* index of the next chunk the sender slices
    cWire,      \* the encoded chunks sent so far, in index order
    cRecv       \* the chunks the receiver has decoded, in arrival order

codecVars == << cData, cC, cNext, cWire, cRecv >>

\* The variables of the participants (Sections 2 to 9).
VARIABLES
    node,       \* the component state of each participant
    wire,       \* envelopes the relay holds, per (sender, target), in order
    chan,       \* data-channel messages in flight, per (sender, target), in order
    live,       \* the participants whose component is modelled
    budget,     \* what the environment may still do
    hist        \* history: the last event and what was sent and received

netVars == << node, wire, chan, live, budget, hist >>

\* The whiteboard component of one participant (Section 11).
VARIABLE wb

vars == << cData, cC, cNext, cWire, cRecv, node, wire, chan, live, budget, hist, wb >>

\* One iteration of the slice loop of sendFileChunks: slice, encode, send.
CodecSendChunk ==
    /\ cNext < CeilDiv(Len(cData), cC)
    /\ cWire' = Append(cWire, EncodeChunk(cData, cNext, cC))
    /\ cNext' = cNext + 1
    /\ UNCHANGED << cData, cC, cRecv >>
    /\ UNCHANGED << netVars, wb >>

\* The receiver's decode of the next chunk in the ordered channel.
CodecReceiveChunk ==
    /\ Len(cRecv) < Len(cWire)
    /\ ~atobThrows(cWire[Len(cRecv) + 1])
    /\ cRecv' = Append(cRecv, DecodeChunk(cWire[Len(cRecv) + 1]))
    /\ UNCHANGED << cData, cC, cNext, cWire >>
    /\ UNCHANGED << netVars, wb >>

CodecNext == CodecSendChunk \/ CodecReceiveChunk

(***************************************************************************)
(* Section 2.  The state of one Share component (one browser tab).         *)
(*                                                                         *)
(* node[n] is the state of participant n: the useState values, their       *)
(* mirrors, the render-time closures, the simple-peer objects it created   *)
(* and its pending setTimeout callbacks.  A handler is an operator from a  *)
(* node state to a node state; what it sends is appended to the fields     *)
(* sig (envelopes for the relay) and tx (data-channel messages), which the *)
(* action that runs the handler moves onto the wires.                      *)
(*                                                                         *)
(* Not modelled: display names, chat messages, serverError, progress bars  *)
(* of the UI other than the progress field of a transfer record, and the   *)
(* adaptive inter-chunk delay (it changes timing only).                    *)
(***************************************************************************)

Nodes == {"A", "B", "C"}

\* Bounds.
MaxObjs == 2        \* simple-peer objects one participant creates per remote id
MaxFiles == 1       \* file ids in play

FileIds == 1..MaxFiles

\* const FILE_CHUNK_SIZE = 128 * 1024
FILE_CHUNK_SIZE == 131072

\* isLargeFile: totalSize > 100 * 1024 * 1024
LargeFileLimit == 104857600

\* A directory entry (interface PeerConnection).  status "none" stands for an
\* absent key; peer = 0 for an entry without a peer object, else the index of
\* the object in objs; offerData = 0 for undefined, else the id of the remote
\* object that made the stored offer.
NoConn == [status |-> "none", peer |-> 0, isInitiator |-> FALSE, offerData |-> 0]

NoRequest == [present |-> FALSE, offerData |-> 0]

\* A transfer record (interface FileTransferProgress); status "none" = absent.
NoProgress == [status |-> "none", progress |-> 0, fileSize |-> 0]

\* A receive buffer, fileChunksRef.current[`${peerId}_${fileId}`].
NoBuffer == [exists |-> FALSE, chunks |-> <<>>, receivedBytes |-> 0, totalSize |-> 0]

\* The sender's file data, fileChunksRef.current[`file_${fileId}`].
NoFileData == [exists |-> FALSE, fileSize |-> 0, acceptedPeers |-> {}]

\* A simple-peer object: new Peer({initiator, trickle: true}).  remote is the id
\* of the remote object whose offer or answer it applied (0: none yet); broken
\* marks a signal the object cannot apply (it then errors).
NewObj(initiator) ==
    [initiator |-> initiator, destroyed |-> FALSE, remote |-> 0,
     offerSent |-> FALSE, answerSent |-> FALSE, connected |-> FALSE,
     broken |-> FALSE, cands |-> 0]

InitNode(n) ==
    [userId              |-> n,
     peerConnections     |-> [p \in Nodes |-> NoConn],
     peerConnectionsRef  |-> [p \in Nodes |-> NoConn],
     incomingRequests    |-> [p \in Nodes |-> NoRequest],
     incomingRequestsView |-> [p \in Nodes |-> NoRequest],
     isConnectingPeer    |-> "null",
     isConnectingPeerRef |-> "null",
     socketOpen          |-> TRUE,
     socketConnected     |-> TRUE,
     socketConnectedView |-> TRUE,
     objs                |-> [p \in Nodes |-> <<>>],
     timers              |-> <<>>,
     sendProgress        |-> [k \in FileIds \X Nodes |-> NoProgress],
     sendProgressRef     |-> [k \in FileIds \X Nodes |-> NoProgress],
     receiveProgress     |-> [k \in Nodes \X FileIds |-> NoProgress],
     receiveProgressRef  |-> [k \in Nodes \X FileIds |-> NoProgress],
     receiveProgressView |-> [k \in Nodes \X FileIds |-> NoProgress],
     fileChunks          |-> [k \in Nodes \X FileIds |-> NoBuffer],
     fileData            |-> [f \in FileIds |-> NoFileData],
     receivedFiles       |-> <<>>,
     downloads           |-> <<>>,
     loops               |-> <<>>,
     lag                 |-> 0,
     sig                 |-> <<>>,
     tx                  |-> <<>>]

\* An envelope of the signaling protocol and a data-channel message.
Envelope(type, peer, flag, oid) == [type |-> type, peer |-> peer, flag |-> flag, oid |-> oid]
DataMsg(type, fileId, size, index, isLast, bad, peers) ==
    [type |-> type, fileId |-> fileId, size |-> size, index |-> index,
     isLast |-> isLast, bad |-> bad, peers |-> peers]
UserInfoMsg == DataMsg("user-info", 0, 0, 0, FALSE, FALSE, {})
PeerListMsg(ids) == DataMsg("peer-list", 0, 0, 0, FALSE, FALSE, ids)
FileInfoMsg(f, size) == DataMsg("file-info", f, size, 0, FALSE, FALSE, {})
FileChunkMsg(f, len, index, isLast, bad) == DataMsg("file-chunk", f, len, index, isLast, bad, {})
FileAcceptedMsg(f) == DataMsg("file-accepted", f, 0, 0, FALSE, FALSE, {})
FileDeclinedMsg(f) == DataMsg("file-declined", f, 0, 0, FALSE, FALSE, {})
ChunkAckMsg(f, index) == DataMsg("chunk-ack", f, 0, index, FALSE, FALSE, {})

\* A pending setTimeout callback.  fresh: no render has happened since the
\* timer was set (the render the same handler asked for comes first).
Timer(kind, peer, oid, ccp, fileId) ==
    [kind |-> kind, peer |-> peer, oid |-> oid, ccp |-> ccp, fileId |-> fileId, fresh |-> TRUE]

\* sendMessageToServer: transmits when the socket is open, else only reports.
sendMessageToServer(s, env) ==
    IF s.socketOpen THEN [s EXCEPT !.sig = Append(@, env)] ELSE s

\* Whether peer.send / peer.signal on object k of peer p throws: simple-peer
\* throws once the object is destroyed.
ObjDead(s, p, k) == k = 0 \/ k > Len(s.objs[p]) \/ s.objs[p][k].destroyed

\* The data channel of object k is open (peer._channel.readyState === 'open').
ChannelOpen(s, p, k) == ~ObjDead(s, p, k) /\ s.objs[p][k].connected

\* peer.send(msg) on object k of peer p, when it does not throw.
peerSend(s, p, k, msg) == [s EXCEPT !.tx = Append(@, [to |-> p, obj |-> k, msg |-> msg])]

\* peer.destroy(): the object is closed for good.
Destroy(s, p, k) ==
    IF k = 0 \/ k > Len(s.objs[p]) THEN s
    ELSE [s EXCEPT !.objs[p][k].destroyed = TRUE, !.objs[p][k].connected = FALSE]

\* The useEffect mirrors and the closures of a new render.
Rendered(s) ==
    /\ s.peerConnectionsRef = s.peerConnections
    /\ s.incomingRequestsView = s.incomingRequests
    /\ s.isConnectingPeerRef = s.isConnectingPeer
    /\ s.socketConnectedView = s.socketConnected
    /\ s.sendProgressRef = s.sendProgress
    /\ s.receiveProgressRef = s.receiveProgress
    /\ s.receiveProgressView = s.receiveProgress

RenderNode(s) ==
    [s EXCEPT !.lag = 0,
              !.timers = [i \in DOMAIN @ |-> [@[i] EXCEPT !.fresh = FALSE]],
              !.peerConnectionsRef = s.peerConnections,
              !.incomingRequestsView = s.incomingRequests,
              !.isConnectingPeerRef = s.isConnectingPeer,
              !.socketConnectedView = s.socketConnected,
              !.sendProgressRef = s.sendProgress,
              !.receiveProgressRef = s.receiveProgress,
              !.receiveProgressView = s.receiveProgress]

(***************************************************************************)
(* Section 3.  The peer directory: handlePeerDisconnect,                   *)
(* initializePeerConnection and the events of a simple-peer object.        *)
(***************************************************************************)

\* setIsConnectingPeer(cur => cur === p ? null : cur)
ClearConnecting(s, p) ==
    IF s.isConnectingPeer = p THEN [s EXCEPT !.isConnectingPeer = "null"] ELSE s

\* cleanProgress and the fileChunksRef sweep of handlePeerDisconnect.
PurgeTransfers(s, p) ==
    [s EXCEPT
        !.sendProgress = [k \in DOMAIN @ |-> IF k[2] = p THEN NoProgress ELSE @[k]],
        !.receiveProgress = [k \in DOMAIN @ |-> IF k[1] = p THEN NoProgress ELSE @[k]],
        !.fileChunks = [k \in DOMAIN @ |-> IF k[1] = p THEN NoBuffer ELSE @[k]]]

\* handlePeerDisconnect without the close event that destroy() emits.
DisconnectCore(s, p) ==
    LET peerToDestroy == s.peerConnectionsRef[p].peer
        s1 == [s EXCEPT !.peerConnections[p] = NoConn]
    IN  PurgeTransfers(Destroy(s1, p, peerToDestroy), p)

\* peer.on('close'): runs handlePeerDisconnect when the mirror still lists the
\* peer, then clears the connecting indicator.  The object that emits the event
\* is destroyed already, so the nested handlePeerDisconnect emits no new event
\* unless the mirror names another, live object.
closeHandler(s, p) ==
    ClearConnecting(
        IF s.peerConnectionsRef[p].status # "none" THEN DisconnectCore(s, p) ELSE s, p)

handlePeerDisconnect(s, p) ==
    LET k == s.peerConnectionsRef[p].peer
        emitsClose == ~ObjDead(s, p, k)
        s1 == DisconnectCore(s, p)
    IN  IF emitsClose THEN closeHandler(s1, p) ELSE s1

\* peer.on('error') followed by the close event of the same object.
errorHandler(s, p) ==
    LET s1 == IF s.peerConnections[p].status # "none"
                 THEN [s EXCEPT !.peerConnections[p].status = "failed"] ELSE s
        s2 == handlePeerDisconnect(ClearConnecting(s1, p), p)
    IN  closeHandler(s2, p)

initializePeerConnection(s, p, initiator) ==
    IF s.peerConnectionsRef[p].peer # 0 THEN
        IF s.peerConnectionsRef[p].status = "failed"
            THEN [s EXCEPT !.peerConnections[p].status = "connecting",
                           !.peerConnections[p].isInitiator = initiator]
            ELSE s
    ELSE
        [s EXCEPT !.objs[p] = Append(@, NewObj(initiator)),
                  !.peerConnections[p] =
                      [status |-> "connecting", peer |-> Len(s.objs[p]) + 1,
                       isInitiator |-> initiator, offerData |-> 0]]

\* peer.signal(data) on a live object.  An initiator applies one answer, a
\* non-initiator one offer; anything else is a signal the object cannot apply.
Signal(s, p, k, type, oid) ==
    LET o == s.objs[p][k] IN
    IF type = "ice-candidate" THEN
        [s EXCEPT !.objs[p][k].cands = Min(o.cands + 1, 1)]
    ELSE IF type = "offer" /\ ~o.initiator /\ o.remote = 0 THEN
        [s EXCEPT !.objs[p][k].remote = oid]
    ELSE IF type = "answer" /\ o.initiator /\ o.offerSent /\ o.remote = 0 THEN
        [s EXCEPT !.objs[p][k].remote = oid]
    ELSE
        [s EXCEPT !.objs[p][k].broken = TRUE]

\* updatePeerStatus of handleSignalingMessage; ccp is currentConnectingPeer, read
\* from isConnectingPeerRef when the envelope arrived.
updatePeerStatus(s, target, status, ccp) ==
    LET s1 == IF s.peerConnections[target].status # "none"
                 THEN [s EXCEPT !.peerConnections[target].status = status] ELSE s
    IN  IF target = ccp /\ status \in {"failed", "connected"}
            THEN ClearConnecting(s1, target) ELSE s1

\* peer.on('signal'): the object hands an offer, an answer or a candidate to the
\* component, which forwards it to the relay.
signalHandler(s, p, k, type) ==
    sendMessageToServer(s, Envelope(type, p, FALSE, k))

\* peer.on('connect'): mark connected, send user-info, then the peer-list of the
\* other peers the mirror holds as connected.
connectHandler(s, p, k) ==
    LET s1 == IF s.peerConnections[p].status # "none"
                 THEN [s EXCEPT !.peerConnections[p].status = "connected"] ELSE s
        s2 == ClearConnecting(s1, p)
        s3 == peerSend(s2, p, k, UserInfoMsg)
        otherPeerIds == { id \in Nodes : id # p /\ s.peerConnectionsRef[id].status = "connected" }
    IN  IF otherPeerIds # {}
            THEN peerSend(s3, p, k, PeerListMsg(otherPeerIds))
            ELSE s3

(***************************************************************************)
(* Section 4.  The signaling handler, the timers it starts and the UI      *)
(* callbacks of the connection workflow.                                   *)
(***************************************************************************)

setTimeout(s, t) == [s EXCEPT !.timers = Append(@, t)]

\* try { peer.signal(data) } catch { updatePeerStatus(p, 'failed') }
SignalOrFail(s, p, k, type, oid, ccp) ==
    IF ObjDead(s, p, k) THEN updatePeerStatus(s, p, "failed", ccp)
    ELSE Signal(s, p, k, type, oid)

\* case 'offer' | 'answer' | 'ice-candidate'
handleSignal(s, msg, ccp) ==
    LET p == msg.peer
        ref == s.peerConnectionsRef[p]
    IN  IF ref.peer # 0 THEN
            SignalOrFail(s, p, ref.peer, msg.type, msg.oid, ccp)
        ELSE IF msg.type = "offer" THEN
            IF ref.status = "pending_approval" THEN
                LET s1 == IF s.peerConnections[p].status = "pending_approval"
                             THEN [s EXCEPT !.peerConnections[p].offerData = msg.oid] ELSE s
                IN  IF s1.incomingRequests[p].present
                        THEN [s1 EXCEPT !.incomingRequests[p].offerData = msg.oid] ELSE s1
            ELSE
                LET s1 == IF ref.status \in {"none", "failed", "disconnected"}
                             THEN initializePeerConnection(s, p, FALSE) ELSE s
                IN  setTimeout(s1, Timer("offer", p, msg.oid, ccp, 0))
        ELSE s

\* The callback of the 50 ms timer of the offer branch.
offerTimer(s, t) ==
    LET conn == s.peerConnectionsRef[t.peer]
    IN  IF conn.peer # 0
            THEN SignalOrFail(s, t.peer, conn.peer, "offer", t.oid, t.ccp)
            ELSE s

\* case 'connection-request'
connectionRequest(s, p, autoAccept) ==
    LET s1 == [s EXCEPT !.peerConnections[p].status =
                            IF autoAccept THEN "connecting" ELSE "pending_approval",
                        !.peerConnections[p].isInitiator = FALSE]
    IN  IF autoAccept THEN initializePeerConnection(s1, p, FALSE)
        ELSE [s1 EXCEPT !.incomingRequests[p] = [present |-> TRUE, offerData |-> 0]]

handleSignalingMessage(s, msg) ==
    LET p == msg.peer
        ccp == s.isConnectingPeerRef
    IN  CASE msg.type = "peer-found" ->
                IF /\ s.peerConnections[p].status = "connecting"
                   /\ s.peerConnections[p].isInitiator
                    THEN [s EXCEPT !.peerConnections[p].status = "pending_approval"]
                    ELSE s
          [] msg.type = "connection-request" -> connectionRequest(s, p, msg.flag)
          [] msg.type = "peer-disconnected" ->
                IF s.peerConnectionsRef[p].status # "none"
                    THEN handlePeerDisconnect(s, p) ELSE s
          [] msg.type \in {"offer", "answer", "ice-candidate"} -> handleSignal(s, msg, ccp)
          [] msg.type = "error" ->
                IF msg.flag /\ ccp # "null" /\ ccp = p THEN handlePeerDisconnect(s, ccp)
                ELSE IF ccp # "null" /\ ccp = p THEN updatePeerStatus(s, ccp, "failed", ccp)
                ELSE s
          [] msg.type = "connection-declined" ->
                ClearConnecting([s EXCEPT !.peerConnections[p] = NoConn], p)
          [] OTHER -> s

\* requestPeerConnection(peerIdToConnect, forceConnect); the name is set.
requestPeerConnection(s, p, forceConnect) ==
    IF p = s.userId THEN s
    ELSE IF s.peerConnectionsRef[p].status # "none" THEN s
    ELSE IF ~s.socketConnectedView /\ ~forceConnect THEN s
    ELSE sendMessageToServer(
            initializePeerConnection([s EXCEPT !.isConnectingPeer = p], p, TRUE),
            Envelope("request-peer-connection", p, forceConnect, 0))

disconnectFromPeer(s, p) == handlePeerDisconnect(s, p)

RemoveRequest(s, p) == [s EXCEPT !.incomingRequests[p] = NoRequest]

handleAcceptRequest(s, p) ==
    LET connectionData == s.peerConnectionsRef[p]
        offerToSignal == connectionData.offerData
    IN  IF connectionData.status # "pending_approval" THEN RemoveRequest(s, p)
        ELSE IF offerToSignal = 0 THEN
            RemoveRequest(
                IF s.peerConnections[p].status # "none"
                    THEN [s EXCEPT !.peerConnections[p].status = "failed",
                                   !.peerConnections[p].offerData = 0]
                    ELSE s, p)
        ELSE setTimeout(initializePeerConnection(RemoveRequest(s, p), p, FALSE),
                        Timer("accept", p, offerToSignal, "null", 0))

\* The callback of the 50 ms timer of handleAcceptRequest.
acceptTimer(s, t) ==
    LET p == t.peer
        conn == s.peerConnectionsRef[p]
    IN  IF conn.peer # 0 THEN
            IF ObjDead(s, p, conn.peer) THEN
                IF s.peerConnections[p].status # "none"
                    THEN [s EXCEPT !.peerConnections[p].status = "failed",
                                   !.peerConnections[p].offerData = 0]
                    ELSE s
            ELSE
                LET s1 == Signal(s, p, conn.peer, "offer", t.oid)
                IN  IF s1.peerConnections[p].status = "connecting"
                        THEN [s1 EXCEPT !.peerConnections[p].offerData = 0] ELSE s1
        ELSE IF s.peerConnections[p].status = "connecting"
            THEN [s EXCEPT !.peerConnections[p].status = "failed",
                           !.peerConnections[p].offerData = 0]
            ELSE s

handleDeclineRequest(s, p) ==
    sendMessageToServer(RemoveRequest(s, p), Envelope("decline-connection", p, FALSE, 0))

\* socket.onclose, with the close events of the objects it destroys.
socketClose(s) ==
    LET RECURSIVE DestroyAll(_, _)
        DestroyAll(t, ps) ==
            IF ps = {} THEN t
            ELSE LET q == CHOOSE x \in ps : TRUE
                     k == s.peerConnectionsRef[q].peer
                     t1 == IF ObjDead(t, q, k) THEN t ELSE closeHandler(Destroy(t, q, k), q)
                 IN  DestroyAll(t1, ps \ {q})
        s1 == DestroyAll([s EXCEPT !.socketConnected = FALSE, !.socketOpen = FALSE], Nodes)
    IN  [s1 EXCEPT !.peerConnections = [q \in Nodes |-> NoConn],
                   !.sendProgress = [k \in DOMAIN @ |-> NoProgress],
                   !.receiveProgress = [k \in DOMAIN @ |-> NoProgress],
                   !.isConnectingPeer = "null"]

(***************************************************************************)
(* Section 5.  The receiving side of the transfer engine.  A chunk is      *)
(* modelled by its index and the length of the bytes it decodes to (the    *)
(* codec of Section 1 gives that length); bad marks a payload atob rejects.*)
(***************************************************************************)

\* Math.round((a / b) * 100)
Percent(a, b) == (200 * a + b) \div (2 * b)

\* The file handed to the user: receivedFiles entry or browser download.
Exposed(p, f, buf) == [from |-> p, fileId |-> f, size |-> buf.totalSize, chunks |-> buf.chunks]

\* transferData.chunks.push(byteArray); transferData.receivedBytes += length
PushChunk(s, key, m) ==
    [s EXCEPT !.fileChunks[key].chunks = Append(@, [index |-> m.index, len |-> m.size]),
              !.fileChunks[key].receivedBytes = @ + m.size]

\* The isLargeFile branches and the final 'complete' update.
ExposeFile(s, p, m) ==
    LET key == <<p, m.fileId>>
        buf == s.fileChunks[key]
        s1 == IF buf.totalSize > LargeFileLimit
                 THEN setTimeout([s EXCEPT !.downloads = Append(@, Exposed(p, m.fileId, buf))],
                                 Timer("revoke", p, 0, "null", m.fileId))
                 ELSE [s EXCEPT !.receivedFiles = Append(@, Exposed(p, m.fileId, buf)),
                                !.fileChunks[key] = NoBuffer]
    IN  [s1 EXCEPT !.receiveProgress[key].progress = 100,
                   !.receiveProgress[key].status = "complete"]

\* The callback of the 100 ms timer of a large-file download.
revokeTimer(s, t) == [s EXCEPT !.fileChunks[<<t.peer, t.fileId>>] = NoBuffer]

\* The branch for a buffer whose record the mirror shows as 'receiving'.
chunkReceiving(s, p, m) ==
    LET key == <<p, m.fileId>>
        s1 == PushChunk(s, key, m)
        buf == s1.fileChunks[key]
        senderConn == s.peerConnectionsRef[p]
        s2 == IF /\ senderConn.peer # 0
                 /\ senderConn.status = "connected"
                 /\ ~ObjDead(s1, p, senderConn.peer)
                 THEN peerSend(s1, p, senderConn.peer, ChunkAckMsg(m.fileId, m.index))
                 ELSE s1
        progress == IF buf.totalSize > 0 THEN Percent(buf.receivedBytes, buf.totalSize) ELSE 0
        s3 == IF /\ (progress # s.receiveProgressRef[key].progress \/ m.isLast)
                 /\ s2.receiveProgress[key].status = "receiving"
                 THEN [s2 EXCEPT !.receiveProgress[key].progress = progress]
                 ELSE s2
    IN  IF ~m.isLast THEN s3
        ELSE IF buf.receivedBytes = buf.totalSize THEN ExposeFile(s3, p, m)
        ELSE [s3 EXCEPT !.receiveProgress[key].status = "failed",
                        !.fileChunks[key] = NoBuffer]

\* The branch for a buffer without a record in the mirror.
chunkNoProgress(s, p, m) ==
    LET key == <<p, m.fileId>>
        s1 == PushChunk(s, key, m)
        buf == s1.fileChunks[key]
        progress == IF buf.totalSize > 0 THEN Percent(buf.receivedBytes, buf.totalSize) ELSE 0
        s2 == IF s1.receiveProgress[key].status # "none"
                 THEN [s1 EXCEPT !.receiveProgress[key].progress = progress,
                                 !.receiveProgress[key].status = "receiving"]
                 ELSE s1
    IN  IF m.isLast /\ buf.receivedBytes = buf.totalSize THEN ExposeFile(s2, p, m) ELSE s2

\* A chunk handler that appends whenever a record exists, accepted or not.
fileChunkNoAcceptCheck(s, p, m) ==
    LET key == <<p, m.fileId>>
    IN  IF s.receiveProgressRef[key].status \in {"pending", "receiving"}
            THEN chunkReceiving([s EXCEPT !.fileChunks[key].exists = TRUE], p, m)
            ELSE s

\* type === 'file-chunk'
fileChunk(s, p, m) ==
    LET key == <<p, m.fileId>>
        transferData == s.fileChunks[key]
        progressData == s.receiveProgressRef[key]
    IN  IF transferData.exists /\ progressData.status = "receiving" THEN
            IF m.bad
                THEN [s EXCEPT !.receiveProgress[key].status = "failed",
                               !.fileChunks[key] = NoBuffer]
                ELSE chunkReceiving(s, p, m)
        ELSE IF progressData.status = "pending" THEN s
        ELSE IF progressData.status = "none" THEN
            IF transferData.exists /\ ~m.bad THEN chunkNoProgress(s, p, m) ELSE s
        ELSE s

\* type === 'file-info'
fileInfo(s, p, m) ==
    [s EXCEPT !.receiveProgress[<<p, m.fileId>>] =
                  [status |-> "pending", progress |-> 0, fileSize |-> m.size]]

\* acceptFile(transferKey) from the render the user sees; the updater runs at
\* once (and writes the mirror) when no other update is waiting for a render.
acceptFile(s, p, f) ==
    LET key == <<p, f>>
        progressData == s.receiveProgressView[key]
        eager == Rendered(s)
        s1 == [s EXCEPT !.fileChunks[key] =
                            [exists |-> TRUE, chunks |-> <<>>, receivedBytes |-> 0,
                             totalSize |-> progressData.fileSize],
                        !.receiveProgress[key].status = "receiving"]
        s2 == IF eager THEN [s1 EXCEPT !.receiveProgressRef = s1.receiveProgress] ELSE s1
        senderConn == s.peerConnectionsRef[p]
    IN  IF progressData.status # "pending" THEN s
        ELSE IF /\ senderConn.peer # 0
                /\ senderConn.status = "connected"
                /\ ~ObjDead(s, p, senderConn.peer)
            THEN peerSend(s2, p, senderConn.peer, FileAcceptedMsg(f))
            ELSE [s2 EXCEPT !.receiveProgress[key].status = "failed",
                            !.fileChunks[key] = NoBuffer]

declineFile(s, p, f) ==
    LET key == <<p, f>>
        progressData == s.receiveProgressView[key]
        senderConn == s.peerConnectionsRef[p]
        s1 == IF /\ senderConn.peer # 0
                 /\ senderConn.status = "connected"
                 /\ ~ObjDead(s, p, senderConn.peer)
                 THEN peerSend(s, p, senderConn.peer, FileDeclinedMsg(f))
                 ELSE s
    IN  IF progressData.status # "pending" THEN s
        ELSE [s1 EXCEPT !.receiveProgress[key] = NoProgress]

(***************************************************************************)
(* Section 6.  The sending side: sendFile and the asynchronous loop        *)
(* sendFileChunks, one record per call, one step per resumption.           *)
(***************************************************************************)

\* Bounds.
MaxLoops == 2       \* calls of sendFileChunks one participant makes

\* The sizes of the files a user selects.
FileSizes == {0, FILE_CHUNK_SIZE, FILE_CHUNK_SIZE + 1}

\* Retry and polling limits of sendFileChunks.
PeerWaitLimit == 3
ChannelWaitLimit == 10
DrainWaitLimit == 30
MaxMessageSize == 262144

\* The JSON text around the base64 payload of a file-chunk message.
JsonOverhead == 96

\* A chunk count that rounds down and adds one.
totalChunksFloor(fileSize) == fileSize \div FILE_CHUNK_SIZE + 1

totalChunks(fileSize) == CeilDiv(fileSize, FILE_CHUNK_SIZE)

\* file.slice(start, end).size for chunk i
ChunkLen(fileSize, i) == Min(i * FILE_CHUNK_SIZE + FILE_CHUNK_SIZE, fileSize) - i * FILE_CHUNK_SIZE

\* new Blob([chunkMessage]).size
MessageSize(len) == 4 * CeilDiv(len, 3) + JsonOverhead

sendFile(s, fileId, fileSize) ==
    LET connectedPeers == { q \in Nodes : s.peerConnectionsRef[q].status = "connected" }
        RECURSIVE Announce(_, _)
        Announce(t, ps) ==
            IF ps = {} THEN t
            ELSE LET q == CHOOSE x \in ps : TRUE
                     k == s.peerConnectionsRef[q].peer
                     rec(st) == [status |-> st, progress |-> 0, fileSize |-> fileSize]
                     t1 == IF ObjDead(s, q, k)
                              THEN [t EXCEPT !.sendProgress[<<fileId, q>>] = rec("failed")]
                              ELSE [peerSend(t, q, k, FileInfoMsg(fileId, fileSize))
                                       EXCEPT !.sendProgress[<<fileId, q>>] = rec("pending")]
                 IN  Announce(t1, ps \ {q})
    IN  IF connectedPeers = {} THEN s
        ELSE Announce([s EXCEPT !.fileData[fileId] =
                                    [exists |-> TRUE, fileSize |-> fileSize, acceptedPeers |-> {}]],
                      connectedPeers)

Loop(fileId, p, fileSize) ==
    [fileId |-> fileId, peer |-> p, fileSize |-> fileSize, pc |-> "start", i |-> 0,
     retryCount |-> 0, channelRetries |-> 0, waitCount |-> 0, obj |-> 0,
     emitted |-> <<>>, outcome |-> "running"]

\* The call itself, up to the first await.
sendFileChunks(s, fileId, p) ==
    IF ~s.fileData[fileId].exists THEN s
    ELSE [s EXCEPT !.loops = Append(@, Loop(fileId, p, s.fileData[fileId].fileSize))]

EndLoop(s, j, how) == [s EXCEPT !.loops[j].pc = "done", !.loops[j].outcome = how]

\* setSendProgress(prev => ({...prev, [key]: {...prev[key], status: 'failed'}})); return
FailLoop(s, j) ==
    EndLoop([s EXCEPT !.sendProgress[<<s.loops[j].fileId, s.loops[j].peer>>].status = "failed"],
            j, "failed")

\* The head of iteration i of the for loop, up to the FileReader await.
IterTop(s, j, i) ==
    LET l == s.loops[j] IN
    IF i >= totalChunks(l.fileSize) THEN EndLoop(s, j, "returned")
    ELSE IF s.peerConnectionsRef[l.peer].status # "connected" THEN FailLoop(s, j)
    ELSE [s EXCEPT !.loops[j].pc = "read", !.loops[j].i = i]

\* peer.send(chunkMessage) on object k, when it does not throw.
Emit(s, j, k) ==
    LET l == s.loops[j]
        len == ChunkLen(l.fileSize, l.i)
        isLast == l.i = totalChunks(l.fileSize) - 1
        s1 == peerSend(s, l.peer, k, FileChunkMsg(l.fileId, len, l.i, isLast, FALSE))
    IN  [s1 EXCEPT !.loops[j].emitted = Append(@, [index |-> l.i, len |-> len, isLast |-> isLast])]

\* What follows a successful send inside the try block.
AfterSend(s, j) ==
    LET l == s.loops[j]
        key == <<l.fileId, l.peer>>
        total == totalChunks(l.fileSize)
        s1 == IF s.sendProgress[key].status = "sending"
                 THEN [s EXCEPT !.sendProgress[key].progress = Percent(l.i + 1, total)]
                 ELSE s
        s2 == [s1 EXCEPT !.sendProgress[key].status = "complete",
                         !.fileData[l.fileId].acceptedPeers =
                             IF s1.fileData[l.fileId].exists THEN @ \cup {l.peer} ELSE @]
        allComplete == \A q \in Nodes :
                          s.sendProgressRef[<<l.fileId, q>>].status
                              \in {"none", "complete", "failed", "declined"}
    IN  IF l.i < total - 1 THEN [s1 EXCEPT !.loops[j].pc = "next"]
        ELSE EndLoop(IF allComplete THEN [s2 EXCEPT !.fileData[l.fileId] = NoFileData] ELSE s2,
                     j, "complete")

\* The size check and the try block around peer.send; err is what send throws.
TrySend(s, j, err) ==
    LET l == s.loops[j] IN
    IF MessageSize(ChunkLen(l.fileSize, l.i)) > MaxMessageSize THEN FailLoop(s, j)
    ELSE IF ObjDead(s, l.peer, l.obj) \/ err = "other" THEN FailLoop(s, j)
    ELSE IF err = "Failure to send data" THEN [s EXCEPT !.loops[j].pc = "retry"]
    ELSE AfterSend(Emit(s, j, l.obj), j)

\* After the wait for the peer: the connected check and the channel check.
AfterPeer(s, j) ==
    LET l == s.loops[j]
        peerConn == s.peerConnectionsRef[l.peer]
    IN  IF peerConn.status # "connected" THEN FailLoop(s, j)
        ELSE IF peerConn.peer = 0 THEN EndLoop(s, j, "threw")
        ELSE IF ~ChannelOpen(s, l.peer, peerConn.peer)
            THEN [s EXCEPT !.loops[j].pc = "waitChannel"]
            ELSE [s EXCEPT !.loops[j].pc = "pre"]

\* One resumption of loop j; buf is what bufferedAmount shows, err what send throws.
sendFileChunksStep(s, j, buf, err) ==
    LET l == s.loops[j]
        key == <<l.fileId, l.peer>>
        conn == s.peerConnectionsRef[l.peer]
    IN  CASE l.pc = "start" ->
                IF conn.status # "connected"
                    THEN [s EXCEPT !.loops[j].pc = "waitPeer"] ELSE AfterPeer(s, j)
          [] l.pc = "waitPeer" ->
                IF conn.status # "connected" /\ l.retryCount + 1 < PeerWaitLimit
                    THEN [s EXCEPT !.loops[j].retryCount = @ + 1]
                    ELSE AfterPeer([s EXCEPT !.loops[j].retryCount = @ + 1], j)
          [] l.pc = "waitChannel" ->
                IF ChannelOpen(s, l.peer, conn.peer) THEN [s EXCEPT !.loops[j].pc = "pre"]
                ELSE IF l.channelRetries + 1 < ChannelWaitLimit
                    THEN [s EXCEPT !.loops[j].channelRetries = @ + 1]
                    ELSE FailLoop([s EXCEPT !.loops[j].channelRetries = @ + 1], j)
          [] l.pc = "pre" ->
                IterTop([s EXCEPT !.sendProgress[key].status = "sending"], j, 0)
          [] l.pc = "next" -> IterTop(s, j, l.i + 1)
          [] l.pc = "read" ->
                IF conn.status # "connected" THEN FailLoop(s, j)
                ELSE IF conn.peer = 0 THEN EndLoop(s, j, "threw")
                ELSE IF ~ChannelOpen(s, l.peer, conn.peer) THEN FailLoop(s, j)
                ELSE IF buf = "high"
                    THEN [s EXCEPT !.loops[j].pc = "drain", !.loops[j].obj = conn.peer,
                                   !.loops[j].waitCount = 0]
                    ELSE TrySend([s EXCEPT !.loops[j].obj = conn.peer], j, err)
          [] l.pc = "drain" ->
                IF conn.status # "connected"
                    THEN FailLoop([s EXCEPT !.loops[j].waitCount = @ + 1], j)
                ELSE IF buf = "high" /\ l.waitCount + 1 < DrainWaitLimit
                    THEN [s EXCEPT !.loops[j].waitCount = @ + 1]
                    ELSE TrySend([s EXCEPT !.loops[j].waitCount = @ + 1], j, err)
          [] l.pc = "retry" ->
                IF conn.status = "connected" /\ ChannelOpen(s, l.peer, conn.peer) THEN
                    IF err # "none" THEN FailLoop(s, j)
                    ELSE IterTop(Emit(s, j, conn.peer), j, l.i + 1)
                ELSE FailLoop(s, j)
          [] OTHER -> s

\* peer.on('data') -> handlePeerData(peerId, message)
handlePeerData(s, p, m) ==
    CASE m.type = "peer-list" ->
            LET RECURSIVE Schedule(_, _)
                Schedule(t, ids) ==
                    IF ids = {} THEN t
                    ELSE LET id == CHOOSE x \in ids : TRUE
                         IN  Schedule(setTimeout(t, Timer("mesh", id, 0, "null", 0)), ids \ {id})
            IN  Schedule(s, { id \in m.peers :
                                /\ id # s.userId
                                /\ s.peerConnectionsRef[id].status = "none"
                                /\ ~InitNode(s.userId).incomingRequests[id].present })
      [] m.type = "file-info" -> fileInfo(s, p, m)
      [] m.type = "file-chunk" -> fileChunk(s, p, m)
      [] m.type = "file-accepted" -> sendFileChunks(s, m.fileId, p)
      [] m.type = "file-declined" ->
            [s EXCEPT !.sendProgress[<<m.fileId, p>>].status = "declined"]
      [] OTHER -> s

\* The callback of a mesh-expansion timer.
meshTimer(s, t) == initializePeerConnection(s, t.peer, TRUE)

(***************************************************************************)
(* Section 7.  Participants, the relay and the channels between them.      *)
(*                                                                         *)
(* live is the set of participants whose component is modelled; the others *)
(* are remote peers whose envelopes and data messages are inputs bounded   *)
(* by budget.  The relay (not part of the repository) is modelled from the *)
(* signaling protocol of the specification: it forwards an envelope to its *)
(* target with the sender attached, answers a connection request with      *)
(* peer-found or an error, and keeps the order of envelopes per pair.      *)
(*                                                                         *)
(* Rendering: state updates of a handler that is not a click wait for a    *)
(* render; at most MaxLag such handlers run before it.  A click handler is *)
(* followed by its render in the same step.                                *)
(***************************************************************************)

\* Bounds.
MaxLag == 1         \* handlers that may run on top of an unrendered one

Pairs == Nodes \X Nodes

Event(kind, n, p, f) == [kind |-> kind, n |-> n, p |-> p, f |-> f]

Online(t) == t \in live /\ node[t].socketOpen

\* The relay handling one envelope sent by n.
Route(w, n, e) ==
    LET t == e.peer IN
    IF e.type = "request-peer-connection" THEN
        IF Online(t)
            THEN [w EXCEPT ![<<n, t>>] = Append(@, Envelope("connection-request", n, e.flag, 0)),
                           ![<<t, n>>] = Append(@, Envelope("peer-found", t, FALSE, 0))]
        ELSE IF t \in live
            THEN [w EXCEPT ![<<t, n>>] = Append(@, Envelope("error", t, TRUE, 0))]
            ELSE w
    ELSE IF ~Online(t) THEN w
    ELSE IF e.type = "decline-connection"
        THEN [w EXCEPT ![<<n, t>>] = Append(@, Envelope("connection-declined", n, FALSE, 0))]
        ELSE [w EXCEPT ![<<n, t>>] = Append(@, Envelope(e.type, n, FALSE, e.oid))]

RECURSIVE RouteAll(_, _, _)
RouteAll(w, n, envs) ==
    IF envs = <<>> THEN w ELSE RouteAll(Route(w, n, Head(envs)), n, Tail(envs))

\* The data channels: a message sent on an object travels to the peer.
RECURSIVE SendAll(_, _, _)
SendAll(c, n, txs) ==
    IF txs = <<>> THEN c
    ELSE LET t == Head(txs)
             c1 == IF t.to \in live
                      THEN [c EXCEPT ![<<n, t.to>>] = Append(@, [obj |-> t.obj, msg |-> t.msg])]
                      ELSE c
         IN  SendAll(c1, n, Tail(txs))

\* Keys of the messages of one type among the transmissions of a step.
Sent(n, txs, type) ==
    { <<n, txs[i].to, txs[i].msg.fileId>> : i \in { j \in DOMAIN txs : txs[j].msg.type = type } }

\* The transfers of n that a handler interrupts: the session of the recipient
\* is removed from the directory while the loop has sent some but not all chunks.
Cut(n, s2) ==
    { <<n, node[n].loops[j].peer, node[n].loops[j].fileId>> :
        j \in { i \in 1..Len(node[n].loops) :
                 LET l == node[n].loops[i] IN
                 /\ l.pc # "done"
                 /\ Len(l.emitted) > 0
                 /\ node[n].peerConnections[l.peer].status = "connected"
                 /\ s2.peerConnections[l.peer].status = "none" } }

\* The send loops of n that are in flight toward a peer whose session a handler
\* removes from the directory.
Dropped(n, s2) ==
    { <<n, j>> : j \in { i \in 1..Len(node[n].loops) :
                           LET l == node[n].loops[i] IN
                           /\ l.pc # "done"
                           /\ node[n].peerConnections[l.peer].status # "none"
                           /\ s2.peerConnections[l.peer].status = "none" } }

\* The peers from which n has received a connectivity candidate for the
\* session it holds: a handled ice-candidate adds the peer, the end of the
\* session (removed or failed) forgets it.
CandidatesFrom(n, s2, ev, had) ==
    { pr \in had \cup (IF ev.kind = "ice-candidate" THEN {<<n, ev.p>>} ELSE {}) :
        pr[1] = n => s2.peerConnections[pr[2]].status \notin {"none", "failed"} }

\* No send record, receive record or chunk buffer of s is keyed to p.
NoRecords(s, p) ==
    /\ \A k \in DOMAIN s.sendProgress : k[2] = p => s.sendProgress[k].status = "none"
    /\ \A k \in DOMAIN s.receiveProgress : k[1] = p => s.receiveProgress[k].status = "none"
    /\ \A k \in DOMAIN s.fileChunks : k[1] = p => ~s.fileChunks[k].exists

\* The peers whose session a handler at n removes together with their records.
Purged(n, s2) ==
    { <<n, p>> : p \in { q \in Nodes : /\ node[n].peerConnections[q].status # "none"
                                       /\ s2.peerConnections[q].status = "none"
                                       /\ NoRecords(s2, q) } }

\* The peers for which a handler at n starts a new transfer: a file-info from
\* the peer, or a sendFile that announces the file to it.
Renewed(n, s2, ev) ==
    IF ev.kind = "file-info" THEN {<<n, ev.p>>}
    ELSE IF ev.kind = "sendFile"
         THEN { <<n, q>> : q \in { r \in Nodes : s2.sendProgress[<<ev.f, r>>].status # "none" } }
         ELSE {}

\* The end of a handler at participant n: what it sent goes to the relay and
\* the channels, and the history records the event.
Commit(n, s2, ev, h, w, c) ==
    /\ \A p \in Nodes : Len(s2.objs[p]) <= MaxObjs
    /\ Len(s2.loops) <= MaxLoops
    /\ node' = [node EXCEPT ![n] = [s2 EXCEPT !.sig = <<>>, !.tx = <<>>]]
    /\ wire' = RouteAll(w, n, s2.sig)
    /\ chan' = SendAll(c, n, s2.tx)
    /\ hist' = [h EXCEPT !.ev = ev,
                         !.acceptSent = @ \cup Sent(n, s2.tx, "file-accepted"),
                         !.chunkSent = @ \cup Sent(n, s2.tx, "file-chunk"),
                         !.cut = @ \cup Cut(n, s2),
                         !.purged = (@ \ Renewed(n, s2, ev)) \cup Purged(n, s2),
                         !.dropped = @ \cup Dropped(n, s2),
                         !.candRx = CandidatesFrom(n, s2, ev, @)]
    /\ UNCHANGED << live, cData, cC, cNext, cWire, cRecv, wb >>

\* A handler that is not a click: its updates wait for the next render.
Async(n, s2) == [s2 EXCEPT !.lag = IF Rendered(s2) THEN 0 ELSE node[n].lag + 1]

\* A click handler: React renders at the end of the event.
Click(s2) == RenderNode(s2)

CanRun(n) == n \in live /\ node[n].lag <= MaxLag

\* The useEffect mirrors catch up with the state.
Render(n) ==
    /\ n \in live
    /\ ~Rendered(node[n])
    /\ UNCHANGED budget
    /\ Commit(n, RenderNode(node[n]), Event("render", n, n, 0), hist, wire, chan)

(***************************************************************************)
(* Section 8.  The events of a participant.                                *)
(***************************************************************************)

\* socket.onmessage: the next envelope the relay holds for n from p.
DeliverSignal(n, p) ==
    /\ CanRun(n) /\ p \in live /\ node[n].socketOpen
    /\ wire[<<p, n>>] # <<>>
    /\ UNCHANGED budget
    /\ LET e == Head(wire[<<p, n>>])
       IN  Commit(n, Async(n, handleSignalingMessage(node[n], e)), Event(e.type, n, p, 0),
                  hist, [wire EXCEPT ![<<p, n>>] = Tail(@)], chan)

\* socket.onmessage for an envelope that originates at a remote peer.
EnvEnvelopes(p) ==
    { Envelope(t, p, FALSE, 1) : t \in {"offer", "answer", "ice-candidate", "peer-found",
                                         "connection-declined", "peer-disconnected",
                                         "connection-request"} }
    \cup { Envelope("connection-request", p, TRUE, 0), Envelope("error", p, TRUE, 0) }

EnvSignal(n, p, envs) ==
    /\ CanRun(n) /\ p \notin live /\ p # n /\ node[n].socketOpen
    /\ budget.envSig > 0
    /\ budget' = [budget EXCEPT !.envSig = @ - 1]
    /\ \E e \in envs :
          Commit(n, Async(n, handleSignalingMessage(node[n], e)), Event(e.type, n, p, 0),
                 hist, wire, chan)

\* The history of the accepts and declines a sender received.
Received(h, n, p, m) ==
    [h EXCEPT !.msg = m,
              !.acceptRx = IF m.type = "file-accepted" THEN @ \cup {<<n, p, m.fileId>>} ELSE @,
              !.declineRx = IF m.type = "file-declined" THEN @ \cup {<<n, p, m.fileId>>} ELSE @]

\* The object of n that is the other end of object k of peer p.
PeerObj(n, p, k) == IF k = 0 \/ k > Len(node[p].objs[n]) THEN 0 ELSE node[p].objs[n][k].remote

\* peer.on('data'): the next message of the channel from p; a message for an
\* object that is gone is lost.
DeliverData(n, p) ==
    /\ CanRun(n) /\ p \in live
    /\ chan[<<p, n>>] # <<>>
    /\ UNCHANGED budget
    /\ LET d == Head(chan[<<p, n>>])
           k == PeerObj(n, p, d.obj)
           c == [chan EXCEPT ![<<p, n>>] = Tail(@)]
       IN  IF ObjDead(node[n], p, k)
               THEN Commit(n, node[n], Event("lost", n, p, d.msg.fileId), hist, wire, c)
               ELSE /\ node[n].objs[p][k].connected
                    /\ Commit(n, Async(n, handlePeerData(node[n], p, d.msg)),
                              Event(d.msg.type, n, p, d.msg.fileId),
                              Received(hist, n, p, d.msg), wire, c)

\* The data messages a remote peer may send.
ChunkIndexes == 0..1
ChunkLens == {FILE_CHUNK_SIZE, 1}
InfoSizes == {FILE_CHUNK_SIZE + 1, FILE_CHUNK_SIZE}

EnvFileMessages ==
    { FileInfoMsg(f, size) : f \in FileIds, size \in InfoSizes }
    \cup { FileChunkMsg(f, len, i, l, b) :
              f \in FileIds, len \in ChunkLens, i \in ChunkIndexes, l \in BOOLEAN, b \in BOOLEAN }

EnvReplyMessages == { FileAcceptedMsg(f) : f \in FileIds } \cup { FileDeclinedMsg(f) : f \in FileIds }

EnvData(n, p, msgs) ==
    /\ CanRun(n) /\ p \notin live /\ p # n
    /\ \E k \in 1..Len(node[n].objs[p]) : ChannelOpen(node[n], p, k)
    /\ budget.envData > 0
    /\ budget' = [budget EXCEPT !.envData = @ - 1]
    /\ \E m \in msgs :
          Commit(n, Async(n, handlePeerData(node[n], p, m)), Event(m.type, n, p, m.fileId),
                 Received(hist, n, p, m), wire, chan)

\* A remote peer that comes back through the link of n: request, then offer.
EnvReconnects(n, p) ==
    EnvSignal(n, p, {Envelope("connection-request", p, TRUE, 0), Envelope("offer", p, FALSE, 1)})

EnvSendsFile(n, p) == EnvData(n, p, EnvFileMessages)
EnvReplies(n, p) == EnvData(n, p, EnvReplyMessages)
EnvSendsPeerList(n, p) == EnvData(n, p, { PeerListMsg({q}) : q \in Nodes \ {p} })

\* An object of n for peer p produces its offer or its answer.
ObjSignal(n, p, k) ==
    /\ CanRun(n) /\ k \in 1..Len(node[n].objs[p])
    /\ ~ObjDead(node[n], p, k)
    /\ UNCHANGED budget
    /\ LET o == node[n].objs[p][k] IN
       \/ /\ o.initiator /\ ~o.offerSent
          /\ Commit(n, Async(n, signalHandler([node[n] EXCEPT !.objs[p][k].offerSent = TRUE],
                                               p, k, "offer")),
                    Event("signal", n, p, 0), hist, wire, chan)
       \/ /\ ~o.initiator /\ o.remote # 0 /\ ~o.broken /\ ~o.answerSent
          /\ Commit(n, Async(n, signalHandler([node[n] EXCEPT !.objs[p][k].answerSent = TRUE],
                                               p, k, "answer")),
                    Event("signal", n, p, 0), hist, wire, chan)

\* Object k of n for p and the object at the other end have agreed.
Linked(n, p, k) ==
    LET o == node[n].objs[p][k] IN
    /\ o.remote # 0 /\ ~o.broken
    /\ IF o.initiator THEN o.offerSent ELSE o.answerSent
    /\ p \in live =>
          /\ o.remote <= Len(node[p].objs[n])
          /\ LET r == node[p].objs[n][o.remote]
             IN  r.remote = k /\ ~r.destroyed /\ ~r.broken /\ r.initiator # o.initiator

\* peer.on('connect')
ObjConnect(n, p, k) ==
    /\ CanRun(n) /\ k \in 1..Len(node[n].objs[p])
    /\ ~ObjDead(node[n], p, k) /\ ~node[n].objs[p][k].connected
    /\ Linked(n, p, k)
    /\ UNCHANGED budget
    /\ Commit(n, Async(n, connectHandler([node[n] EXCEPT !.objs[p][k].connected = TRUE], p, k)),
              Event("connect", n, p, 0), hist, wire, chan)

\* peer.on('error'), then 'close': the object was given a signal it cannot
\* apply, or the transport failed.
ObjError(n, p, k) ==
    /\ CanRun(n) /\ k \in 1..Len(node[n].objs[p])
    /\ ~ObjDead(node[n], p, k)
    /\ \/ node[n].objs[p][k].broken /\ UNCHANGED budget
       \/ budget.err > 0 /\ budget' = [budget EXCEPT !.err = @ - 1]
    /\ Commit(n, Async(n, errorHandler(Destroy(node[n], p, k), p)),
              Event("error", n, p, 0), hist, wire, chan)

\* peer.on('close') because the other end went away.
ObjClose(n, p, k) ==
    /\ CanRun(n) /\ k \in 1..Len(node[n].objs[p])
    /\ ~ObjDead(node[n], p, k)
    /\ node[n].objs[p][k].remote # 0
    /\ IF p \in live
          THEN /\ ObjDead(node[p], n, node[n].objs[p][k].remote)
               /\ UNCHANGED budget
          ELSE /\ budget.close > 0
               /\ budget' = [budget EXCEPT !.close = @ - 1]
    /\ Commit(n, Async(n, closeHandler(Destroy(node[n], p, k), p)),
              Event("close", n, p, 0), hist, wire, chan)

\* Timers of 50 ms run in the order they were set; a mesh timer has a random
\* delay and may be overtaken.
CanFire(s, i) ==
    /\ ~s.timers[i].fresh \/ Rendered(s)
    /\ \A j \in 1..(i - 1) :
          /\ s.timers[j].kind \notin {"offer", "accept"}
          /\ s.timers[i].kind = "revoke" => s.timers[j].kind # "revoke"

RemoveAt(seq, i) == [j \in 1..(Len(seq) - 1) |-> IF j < i THEN seq[j] ELSE seq[j + 1]]

timerCallback(s, t) ==
    CASE t.kind = "offer" -> offerTimer(s, t)
      [] t.kind = "accept" -> acceptTimer(s, t)
      [] t.kind = "mesh" -> meshTimer(s, t)
      [] t.kind = "revoke" -> revokeTimer(s, t)

FireTimer(n, i) ==
    /\ CanRun(n) /\ i \in 1..Len(node[n].timers)
    /\ CanFire(node[n], i)
    /\ UNCHANGED budget
    /\ LET t == node[n].timers[i]
           s1 == [node[n] EXCEPT !.timers = RemoveAt(@, i)]
       IN  Commit(n, Async(n, timerCallback(s1, t)), Event(t.kind, n, t.peer, t.fileId),
                  hist, wire, chan)

\* One resumption of a send loop.
BufferLevels == {"low", "high"}
SendErrors == {"none", "Failure to send data", "other"}

LoopStep(n, j) ==
    /\ CanRun(n) /\ j \in 1..Len(node[n].loops)
    /\ node[n].loops[j].pc # "done"
    /\ \E buf \in BufferLevels, err \in SendErrors :
          /\ buf = "high" => node[n].loops[j].pc \in {"read", "drain"}
          /\ err # "none" => node[n].loops[j].pc \in {"read", "drain", "retry"}
          /\ IF buf = "high" \/ err # "none"
                THEN budget.fault > 0 /\ budget' = [budget EXCEPT !.fault = @ - 1]
                ELSE UNCHANGED budget
          /\ Commit(n, Async(n, sendFileChunksStep(node[n], j, buf, err)),
                    Event(IF buf = "high" THEN "loop-high" ELSE "loop",
                          n, node[n].loops[j].peer, node[n].loops[j].fileId),
                    hist, wire, chan)

(***************************************************************************)
(* Section 9.  The user of a participant.  A button exists only in the     *)
(* render the user sees, so each click is guarded by the rendered view.    *)
(***************************************************************************)

\* The Connect button.
RequestConnect(n, p) ==
    /\ CanRun(n) /\ p # n
    /\ node[n].socketConnectedView
    /\ node[n].isConnectingPeerRef = "null"
    /\ node[n].peerConnectionsRef[p].status = "none"
    /\ budget.request > 0
    /\ budget' = [budget EXCEPT !.request = @ - 1]
    /\ Commit(n, Click(requestPeerConnection(node[n], p, FALSE)),
              Event("request", n, p, 0), hist, wire, chan)

\* socket.onopen with ?peer= in the page address: requestPeerConnection(p, true)
\* before anything else happened.
LinkConnect(n, p) ==
    /\ CanRun(n) /\ p # n
    /\ node[n] = InitNode(n)
    /\ budget.request > 0
    /\ budget' = [budget EXCEPT !.request = @ - 1]
    /\ Commit(n, Async(n, requestPeerConnection(node[n], p, TRUE)),
              Event("request", n, p, 0), hist, wire, chan)

AcceptRequest(n, p) ==
    /\ CanRun(n)
    /\ node[n].incomingRequestsView[p].present
    /\ UNCHANGED budget
    /\ Commit(n, Click(handleAcceptRequest(node[n], p)), Event("accept", n, p, 0),
              hist, wire, chan)

DeclineRequest(n, p) ==
    /\ CanRun(n)
    /\ node[n].incomingRequestsView[p].present
    /\ UNCHANGED budget
    /\ Commit(n, Click(handleDeclineRequest(node[n], p)), Event("decline", n, p, 0),
              hist, wire, chan)

\* The X button of a directory entry.
Disconnect(n, p) ==
    /\ CanRun(n)
    /\ node[n].peerConnectionsRef[p].status # "none"
    /\ budget.disconnect > 0
    /\ budget' = [budget EXCEPT !.disconnect = @ - 1]
    /\ Commit(n, Click(disconnectFromPeer(node[n], p)), Event("disconnect", n, p, 0),
              hist, wire, chan)

\* The Send button with a file of some size selected.
SendFile(n) ==
    /\ CanRun(n)
    /\ \E f \in FileIds, size \in FileSizes :
          /\ ~node[n].fileData[f].exists
          /\ \A q \in Nodes : node[n].sendProgress[<<f, q>>].status = "none"
          /\ \A g \in FileIds : g < f => <<n, g>> \in hist.filesSent
          /\ <<n, f>> \notin hist.filesSent
          /\ \E q \in Nodes : node[n].peerConnectionsRef[q].status = "connected"
          /\ UNCHANGED budget
          /\ Commit(n, Click(sendFile(node[n], f, size)), Event("sendFile", n, n, f),
                    [hist EXCEPT !.filesSent = @ \cup {<<n, f>>}], wire, chan)

AcceptFile(n, p, f) ==
    /\ CanRun(n)
    /\ node[n].receiveProgressView[<<p, f>>].status = "pending"
    /\ UNCHANGED budget
    /\ Commit(n, Click(acceptFile(node[n], p, f)), Event("acceptFile", n, p, f),
              hist, wire, chan)

DeclineFile(n, p, f) ==
    /\ CanRun(n)
    /\ node[n].receiveProgressView[<<p, f>>].status = "pending"
    /\ UNCHANGED budget
    /\ Commit(n, Click(declineFile(node[n], p, f)), Event("declineFile", n, p, f),
              hist, wire, chan)

\* socket.onclose; the relay tells the other participants (peer-disconnected).
SocketClose(n) ==
    /\ CanRun(n) /\ node[n].socketOpen
    /\ budget.close > 0
    /\ budget' = [budget EXCEPT !.close = @ - 1]
    /\ Commit(n, Async(n, socketClose(node[n])), Event("socketClose", n, n, 0), hist,
              [pr \in Pairs |->
                  IF pr[1] = n /\ pr[2] # n /\ Online(pr[2])
                      THEN Append(wire[pr], Envelope("peer-disconnected", n, FALSE, 0))
                      ELSE wire[pr]],
              chan)

(***************************************************************************)
(* Section 10.  Specifications.                                            *)
(***************************************************************************)

\* The whiteboard after mount: no socket yet, nothing queued, an empty board.
\* linked, rx, peerRx and peerBoard describe the data channel to one joining
\* peer: whether it is open, the messages in flight in each direction and the
\* strokes on the joiner's board.
BoardIdle ==
    [socket |-> "none", sendQueue |-> <<>>, relayRx |-> <<>>, submitted |-> <<>>,
     strokes |-> <<>>, strokesRef |-> <<>>, lag |-> 0,
     linked |-> FALSE, rx |-> <<>>, peerRx |-> <<>>, peerBoard |-> <<>>]

HistInit ==
    [ev |-> Event("init", "A", "A", 0), acceptSent |-> {}, chunkSent |-> {},
     acceptRx |-> {}, declineRx |-> {}, filesSent |-> {}, cut |-> {}, purged |-> {}, dropped |-> {}, candRx |-> {},
     msg |-> DataMsg("none", 0, 0, 0, FALSE, FALSE, {})]

Budget(envSig, envData, err, close, fault, request, disconnect) ==
    [envSig |-> envSig, envData |-> envData, err |-> err, close |-> close,
     fault |-> fault, request |-> request, disconnect |-> disconnect]

NetIdle ==
    /\ node = [n \in Nodes |-> InitNode(n)]
    /\ wire = [pr \in Pairs |-> <<>>]
    /\ chan = [pr \in Pairs |-> <<>>]
    /\ hist = HistInit

CodecIdle == cData = <<>> /\ cC = 1 /\ cNext = 0 /\ cWire = <<>> /\ cRecv = <<>>

\* The codec on its own: every file up to MaxLen bytes, every chunk size up to MaxC.
CodecStart ==
    /\ cData \in SeqsUpTo(ByteSamples, MaxLen)
    /\ cC \in 1..MaxC
    /\ cNext = 0 /\ cWire = <<>> /\ cRecv = <<>>
    /\ node = [n \in Nodes |-> InitNode(n)]
    /\ wire = [pr \in Pairs |-> <<>>]
    /\ chan = [pr \in Pairs |-> <<>>]
    /\ hist = HistInit
    /\ live = {}
    /\ budget = Budget(0, 0, 0, 0, 0, 0, 0)
    /\ wb = BoardIdle

SpecCodec == CodecStart /\ [][CodecNext]_vars

\* C5: every encoded chunk decodes without an exception to exactly the bytes of
\* the slice it was made from (so to the same length), and once all
\* ceil(N/C) chunks are decoded their concatenation in index order is the file.
C5_RoundTrip ==
    /\ \A i \in 1..Len(cWire) : ~atobThrows(cWire[i])
    /\ \A i \in 1..Len(cRecv) :
          cRecv[i] = SubSeq(cData, (i - 1) * cC + 1, Min(i * cC, Len(cData)))
    /\ (cNext = CeilDiv(Len(cData), cC) /\ Len(cRecv) = cNext) => Concat(cRecv) = cData

\* A file of two chunks, the second shorter than the first and padded by btoa,
\* has been decoded completely.
C5_Witness ==
    /\ Len(cData) = 4 /\ cC = 3 /\ cData[4] = 255
    /\ Len(cRecv) = 2

\* The state of n after the handshakes with the peers ps have completed and
\* been rendered, n having answered each peer's offer.
ConnectedNode(n, ps) ==
    LET conn == [status |-> "connected", peer |-> 1, isInitiator |-> FALSE, offerData |-> 0]
        obj == [NewObj(FALSE) EXCEPT !.remote = 1, !.answerSent = TRUE, !.connected = TRUE]
    IN  [InitNode(n) EXCEPT
            !.peerConnections = [p \in Nodes |-> IF p \in ps THEN conn ELSE NoConn],
            !.peerConnectionsRef = [p \in Nodes |-> IF p \in ps THEN conn ELSE NoConn],
            !.objs = [p \in Nodes |-> IF p \in ps THEN <<obj>> ELSE <<>>]]

\* Budgets of the receiver specification.
RecvData == 4
RecvClose == 1

\* B receives files from the remote peer A.
RecvInit ==
    /\ CodecIdle
    /\ live = {"B"}
    /\ node = [n \in Nodes |-> IF n = "B" THEN ConnectedNode("B", {"A"}) ELSE InitNode(n)]
    /\ wire = [pr \in Pairs |-> <<>>]
    /\ chan = [pr \in Pairs |-> <<>>]
    /\ hist = HistInit
    /\ budget = Budget(0, RecvData, 0, RecvClose, 0, 0, 0)
    /\ wb = BoardIdle

RecvNext ==
    \/ \E p \in Nodes : EnvSendsFile("B", p)
    \/ \E p \in Nodes, f \in FileIds : AcceptFile("B", p, f)
    \/ \E p \in Nodes, f \in FileIds : DeclineFile("B", p, f)
    \/ \E p \in Nodes, k \in 1..MaxObjs : ObjClose("B", p, k)
    \/ Render("B")

SpecRecv == RecvInit /\ [][RecvNext]_vars

\* C1: a file-chunk changes the chunk buffer or the received files of its
\* transfer key only if file-accepted was sent for that key before; and a
\* file-chunk that arrives while the record is pending and was never accepted
\* leaves the record, the buffer and the received files as they were.
C1_ReceiverGating ==
    [][\A n \in live, p \in Nodes, f \in FileIds :
          LET key == <<p, f>>
              b == node[n]
              b2 == node'[n]
              accepted == <<n, p, f>> \in hist.acceptSent
          IN  hist'.ev = Event("file-chunk", n, p, f) =>
                /\ (b2.fileChunks[key] # b.fileChunks[key] \/ b2.receivedFiles # b.receivedFiles)
                      => accepted
                /\ (b.receiveProgress[key].status = "pending" /\ ~accepted) =>
                      /\ b2.receiveProgress[key] = b.receiveProgress[key]
                      /\ b2.fileChunks[key] = b.fileChunks[key]
                      /\ b2.receivedFiles = b.receivedFiles]_vars

\* A chunk has just arrived for a record that is pending and was never accepted.
C1_Witness ==
    \E p \in Nodes, f \in FileIds :
        /\ hist.ev = Event("file-chunk", "B", p, f)
        /\ ~hist.msg.bad
        /\ node["B"].receiveProgress[<<p, f>>].status = "pending"
        /\ <<"B", p, f>> \notin hist.acceptSent

\* C2: when the chunk flagged isLast is appended and the bytes received differ
\* from the size the buffer was allocated for, the record becomes failed, the
\* buffer is discarded and no file is exposed.
C2_MismatchFails ==
    [][\A n \in live, p \in Nodes, f \in FileIds :
          LET key == <<p, f>>
              b == node[n]
              b2 == node'[n]
              m == hist'.msg
          IN  ( /\ hist'.ev = Event("file-chunk", n, p, f)
                /\ m.isLast /\ ~m.bad
                /\ b.fileChunks[key].exists
                /\ b2.fileChunks[key] # b.fileChunks[key]
                /\ b.fileChunks[key].receivedBytes + m.size # b.fileChunks[key].totalSize )
              => /\ b2.receiveProgress[key].status = "failed"
                 /\ ~b2.fileChunks[key].exists
                 /\ b2.receivedFiles = b.receivedFiles
                 /\ b2.downloads = b.downloads]_vars

\* Budgets of the sender specifications.
SendReplies == 2
SendSignals == 2
SendCloses == 1
SendFaults == 1

\* B sends a file to the remote peers A and C.
SendInit ==
    /\ CodecIdle
    /\ live = {"B"}
    /\ node = [n \in Nodes |-> IF n = "B" THEN ConnectedNode("B", {"A", "C"}) ELSE InitNode(n)]
    /\ wire = [pr \in Pairs |-> <<>>]
    /\ chan = [pr \in Pairs |-> <<>>]
    /\ hist = HistInit
    /\ budget = Budget(0, SendReplies, 0, SendCloses, SendFaults, 0, 0)
    /\ wb = BoardIdle

SendNext ==
    \/ SendFile("B")
    \/ \E p \in Nodes : EnvReplies("B", p)
    \/ \E j \in 1..MaxLoops : LoopStep("B", j)
    \/ \E p \in Nodes, k \in 1..MaxObjs : ObjClose("B", p, k)
    \/ Render("B")

SpecSend == SendInit /\ [][SendNext]_vars

\* The state of B after it announced a file of two chunks to A and C and both
\* accepted: two send loops are about to start.
StreamingNode ==
    LET s0 == ConnectedNode("B", {"A", "C"})
        s1 == Click(sendFile(s0, 1, FILE_CHUNK_SIZE + 1))
        s2 == handlePeerData(s1, "A", FileAcceptedMsg(1))
        s3 == handlePeerData(s2, "C", FileAcceptedMsg(1))
    IN  RenderNode([s3 EXCEPT !.sig = <<>>, !.tx = <<>>])

\* A recipient leaves and comes back while the file is streamed to both.
ResumeInit ==
    /\ CodecIdle
    /\ live = {"B"}
    /\ node = [n \in Nodes |-> IF n = "B" THEN StreamingNode ELSE InitNode(n)]
    /\ wire = [pr \in Pairs |-> <<>>]
    /\ chan = [pr \in Pairs |-> <<>>]
    /\ hist = [HistInit EXCEPT !.filesSent = {<<"B", 1>>},
                               !.acceptRx = {<<"B", "A", 1>>, <<"B", "C", 1>>}]
    /\ budget = Budget(SendSignals, 0, 0, SendCloses, 0, 0, 0)
    /\ wb = BoardIdle

ResumeNext ==
    \/ \E j \in 1..MaxLoops : LoopStep("B", j)
    \/ \E p \in Nodes, k \in 1..MaxObjs : ObjClose("B", p, k)
    \/ \E p \in Nodes : EnvReconnects("B", p)
    \/ \E p \in Nodes, k \in 1..MaxObjs : ObjSignal("B", p, k)
    \/ \E p \in Nodes, k \in 1..MaxObjs : ObjConnect("B", p, k)
    \/ \E p \in Nodes, k \in 1..MaxObjs : ObjError("B", p, k)
    \/ \E i \in 1..2 : FireTimer("B", i)
    \/ Render("B")

SpecResume == ResumeInit /\ [][ResumeNext]_vars

\* C3: the record of a recipient becomes declined when its file-declined is
\* handled; from then on the record stays declined (or is purged with the
\* session) and no send loop emits a chunk of that file to that recipient.
C3_DeclineIsFinal ==
    [][\A n \in live, p \in Nodes, f \in FileIds :
          /\ hist'.ev = Event("file-declined", n, p, f) =>
                node'[n].sendProgress[<<f, p>>].status = "declined"
          /\ <<n, p, f>> \in hist.declineRx =>
                /\ node'[n].sendProgress[<<f, p>>].status \in {"declined", "none"}
                /\ \A j \in 1..Len(node[n].loops) :
                      (node[n].loops[j].peer = p /\ node[n].loops[j].fileId = f) =>
                          node'[n].loops[j].emitted = node[n].loops[j].emitted]_vars

\* The chunk sequence of a loop: index i-1 at position i, FILE_CHUNK_SIZE bytes
\* in every chunk but the last, the rest of the file in the last, isLast on
\* the last only; a loop that ran through all iterations emitted all of them.
ChunksInOrder(l) ==
    LET k == CeilDiv(l.fileSize, FILE_CHUNK_SIZE) IN
    /\ Len(l.emitted) <= k
    /\ \A i \in 1..Len(l.emitted) :
          /\ l.emitted[i].index = i - 1
          /\ l.emitted[i].len = IF i < k THEN FILE_CHUNK_SIZE
                                         ELSE l.fileSize - (k - 1) * FILE_CHUNK_SIZE
          /\ l.emitted[i].len > 0
          /\ l.emitted[i].isLast = (i = k)
    /\ l.outcome \in {"complete", "returned"} => Len(l.emitted) = k

C6_CutTransferFails ==
    \A n \in live, p \in Nodes, f \in FileIds :
        <<n, p, f>> \in hist.cut => node[n].sendProgress[<<f, p>>].status # "complete"

\* Budgets of the two-participant specification.
PairRequests == 1
PairErrors == 1
PairDisconnects == 1

\* A and B both run the component; A asks for a connection to B, by the
\* Connect button (manual approval at B) or by B's link (automatic).
PairInit ==
    /\ CodecIdle /\ NetIdle
    /\ live = {"A", "B"}
    /\ budget = Budget(0, 0, PairErrors, 0, 0, PairRequests, PairDisconnects)
    /\ wb = BoardIdle

PairNext ==
    \/ RequestConnect("A", "B")
    \/ LinkConnect("A", "B")
    \/ \E n \in {"A", "B"}, p \in {"A", "B"} : DeliverSignal(n, p)
    \/ \E n \in {"A", "B"}, p \in {"A", "B"} : DeliverData(n, p)
    \/ \E n \in {"A", "B"}, p \in {"A", "B"}, k \in 1..MaxObjs : ObjSignal(n, p, k)
    \/ \E n \in {"A", "B"}, p \in {"A", "B"}, k \in 1..MaxObjs : ObjConnect(n, p, k)
    \/ \E n \in {"A", "B"}, p \in {"A", "B"}, k \in 1..MaxObjs : ObjError(n, p, k)
    \/ \E n \in {"A", "B"}, p \in {"A", "B"}, k \in 1..MaxObjs : ObjClose(n, p, k)
    \/ \E n \in {"A", "B"}, i \in 1..2 : FireTimer(n, i)
    \/ AcceptRequest("B", "A")
    \/ DeclineRequest("B", "A")
    \/ \E n \in {"A", "B"}, p \in {"A", "B"} : Disconnect(n, p)
    \/ \E n \in {"A", "B"} : Render(n)

SpecPair == PairInit /\ [][PairNext]_vars

\* C8: a session that waits for approval of an incoming request becomes
\* connecting only in the step of the local accept, and a session that answered
\* a request becomes connected only from connecting, by its connect event.
C8_ConnectingOnlyByAccept ==
    [][\A n \in live, p \in Nodes :
          LET c == node[n].peerConnections[p]
              c2 == node'[n].peerConnections[p]
          IN  /\ (c.status = "pending_approval" /\ ~c.isInitiator /\ c2.status = "connecting")
                    => hist'.ev = Event("accept", n, p, 0)
              /\ (c.status # "connected" /\ c2.status = "connected" /\ ~c2.isInitiator)
                    => (c.status = "connecting" /\ hist'.ev = Event("connect", n, p, 0))]_vars

\* C9: the step in which the operator declines a request whose session is
\* pending_approval sends a decline envelope to the requester and removes the
\* session from the directory.
C9_DeclineRemoves ==
    [][\A n \in live, p \in Nodes :
          ( /\ hist'.ev = Event("decline", n, p, 0)
            /\ node[n].peerConnections[p].status = "pending_approval" )
          => /\ wire'[<<n, p>>] = Append(wire[<<n, p>>],
                                         Envelope("connection-declined", n, FALSE, 0))
             /\ node'[n].peerConnections[p].status = "none"]_vars

\* C10: no session of the directory has status failed or disconnected.
C10_NoTerminalSession ==
    \A n \in live, p \in Nodes :
        node[n].peerConnections[p].status \notin {"failed", "disconnected"}

\* Budget of the three-participant specification: A and C each open B's link.
MeshRequests == 2

\* A, B and C all run the component; A and C connect to B by B's link, the
\* transport does not fail and nobody disconnects.
MeshInit ==
    /\ CodecIdle /\ NetIdle
    /\ live = Nodes
    /\ budget = Budget(0, 0, 0, 0, 0, MeshRequests, 0)
    /\ wb = BoardIdle

MeshNext ==
    \/ LinkConnect("A", "B")
    \/ LinkConnect("C", "B")
    \/ \E n \in Nodes, p \in Nodes : DeliverSignal(n, p)
    \/ \E n \in Nodes, p \in Nodes : DeliverData(n, p)
    \/ \E n \in Nodes, p \in Nodes, k \in 1..MaxObjs : ObjSignal(n, p, k)
    \/ \E n \in Nodes, p \in Nodes, k \in 1..MaxObjs : ObjConnect(n, p, k)
    \/ \E n \in Nodes, i \in 1..2 : FireTimer(n, i)
    \/ \E n \in Nodes : Render(n)

\* Fair delivery: a step that stays possible is eventually taken.
SpecMesh == MeshInit /\ [][MeshNext]_vars /\ WF_vars(MeshNext)

Connected(n, p) ==
    /\ node[n].peerConnections[p].status = "connected"
    /\ node[p].peerConnections[n].status = "connected"

\* C7: once A and B are connected, B and C are connected, and no further step
\* is possible (every envelope and message delivered, every timer fired), A
\* and C hold a connected session with each other.
C7_MeshConverges ==
    (Connected("A", "B") /\ Connected("B", "C") /\ ~ENABLED MeshNext)
        => Connected("A", "C")

\* C11: while a peer stays purged at a participant (its session was removed
\* with its records, and since then no file-info came from it and no sendFile
\* announced a file to it), no send record, no receive record and no chunk
\* buffer keyed to that peer exists.
C11_PurgeStays ==
    \A n \in live, p \in Nodes :
        <<n, p>> \in hist.purged => NoRecords(node[n], p)

\* C12: a send loop that was in flight when the session of its recipient was
\* removed from the directory sends no file-chunk in any later step.
C12_LoopCancelled ==
    [][\A n \in live, j \in 1..MaxLoops :
          (j <= Len(node[n].loops) /\ <<n, j>> \in hist.dropped)
              => node'[n].loops[j].emitted = node[n].loops[j].emitted]_vars

\* C13: when nothing more can happen and every send record of a file id is
\* terminal (complete, failed or declined), the sender holds no buffered file
\* data for that file id.
C13_DataReleased ==
    \A n \in live, f \in FileIds :
        ( /\ ~ENABLED SendNext
          /\ \E q \in Nodes : node[n].sendProgress[<<f, q>>].status # "none"
          /\ \A q \in Nodes : node[n].sendProgress[<<f, q>>].status
                                  \in {"none", "complete", "failed", "declined"} )
        => ~node[n].fileData[f].exists

(***************************************************************************)
(* Section 11.  The whiteboard (Whiteboard.tsx): the signaling queue and   *)
(* the stroke list.  Envelopes are numbered in the order they are passed   *)
(* to sendToServer.                                                        *)
(***************************************************************************)

MaxEnvelopes == 4   \* envelopes one whiteboard passes to sendToServer
MaxStrokes == 3     \* strokes the board holds
StrokeIds == 1..2

\* sendToServer without the queue: an envelope is lost unless the socket is open.
sendToServerNoQueue(b, e) ==
    IF b.socket = "open" THEN [b EXCEPT !.relayRx = Append(@, e)] ELSE b

\* sendToServer: transmit on an open socket, queue otherwise.
sendToServer(b, e) ==
    IF b.socket = "open"
        THEN [b EXCEPT !.relayRx = Append(@, e)]
        ELSE [b EXCEPT !.sendQueue = Append(@, e)]

\* A call of sendToServer with the next envelope; the history keeps whether
\* the socket was open at the call.
Submit(b) ==
    LET e == Len(b.submitted) + 1 IN
    [sendToServer(b, e) EXCEPT !.submitted = Append(@, [id |-> e, open |-> b.socket = "open"])]

\* ws.onopen: flush the queue in order, empty it, then connect to ?peer=.
onopen(b, peerParam) ==
    LET b1 == [b EXCEPT !.socket = "open",
                        !.relayRx = @ \o b.sendQueue,
                        !.sendQueue = <<>>]
    IN  IF peerParam THEN Submit(b1) ELSE b1

\* init(): the id is fetched and the WebSocket is created.
BoardConnect ==
    /\ wb.socket = "none"
    /\ wb' = [wb EXCEPT !.socket = "connecting"]
    /\ UNCHANGED << codecVars, netVars >>

BoardOpen ==
    /\ wb.socket = "connecting"
    /\ \E peerParam \in BOOLEAN :
          /\ peerParam => Len(wb.submitted) < MaxEnvelopes
          /\ wb' = onopen(wb, peerParam)
    /\ UNCHANGED << codecVars, netVars >>

\* Any caller of sendToServer: a connection request, a signal of a transport
\* object, an accept or a decline.
BoardSend ==
    /\ Len(wb.submitted) < MaxEnvelopes
    /\ wb' = Submit(wb)
    /\ UNCHANGED << codecVars, netVars >>

\* The relay or the network closes the socket.
BoardSocketClose ==
    /\ wb.socket \in {"connecting", "open"}
    /\ wb' = [wb EXCEPT !.socket = "closed"]
    /\ UNCHANGED << codecVars, netVars >>

\* The peer messages that change the board.
StrokeMsg(id) == [type |-> "stroke", id |-> id, strokes |-> <<>>]
ClearMsg == [type |-> "clear", id |-> 0, strokes |-> <<>>]
FullStateMsg(list) == [type |-> "full-state", id |-> 0, strokes |-> list]

\* The stroke lists a peer shares in a full-state message: no id twice.
FullStates == {<<>>, <<1>>, <<2>>, <<1, 2>>, <<2, 1>>}

\* handlePeerData of the whiteboard: stroke, clear, full-state.
boardPeerData(b, msg) ==
    CASE msg.type = "stroke" ->
            IF \A i \in 1..Len(b.strokesRef) : b.strokesRef[i] # msg.id
                THEN [b EXCEPT !.strokes = Append(@, msg.id)]
                ELSE b
      [] msg.type = "clear" -> [b EXCEPT !.strokes = <<>>]
      [] msg.type = "full-state" -> [b EXCEPT !.strokes = msg.strokes]
      [] OTHER -> b

\* peer.on('data') of the whiteboard; strokesRef follows at the next render.
BoardData(msg) ==
    /\ wb.lag <= MaxLag
    /\ LET b == boardPeerData(wb, msg) IN
          /\ Len(b.strokes) <= MaxStrokes
          /\ wb' = [b EXCEPT !.lag = IF b.strokes = b.strokesRef THEN 0 ELSE wb.lag + 1]
    /\ UNCHANGED << codecVars, netVars >>

BoardStroke == \E id \in StrokeIds : BoardData(StrokeMsg(id))
BoardClear == BoardData(ClearMsg)
BoardFullState == \E list \in FullStates : BoardData(FullStateMsg(list))

\* The effect that copies strokes to strokesRef.
BoardRender ==
    /\ wb.strokesRef # wb.strokes
    /\ wb' = [wb EXCEPT !.strokesRef = wb.strokes, !.lag = 0]
    /\ UNCHANGED << codecVars, netVars >>

BoardInit ==
    /\ CodecIdle /\ NetIdle
    /\ live = {}
    /\ budget = Budget(0, 0, 0, 0, 0, 0, 0)
    /\ wb = BoardIdle

BoardNext ==
    \/ BoardConnect
    \/ BoardOpen
    \/ BoardSend
    \/ BoardSocketClose
    \/ BoardStroke
    \/ BoardClear
    \/ BoardFullState
    \/ BoardRender

SpecBoard == BoardInit /\ [][BoardNext]_vars

Increasing(seq) == \A i, j \in 1..Len(seq) : i < j => seq[i] < seq[j]

\* C14: every envelope passed to sendToServer is either queued or transmitted,
\* never both and never twice; nothing is transmitted before the socket opens;
\* once it is open nothing stays queued; the envelopes are transmitted in the
\* order they were passed (so the queued ones before any later one); and an
\* envelope passed while the socket is open is transmitted.
C14_QueueFifo ==
    LET all == wb.relayRx \o wb.sendQueue IN
    /\ Len(all) = Len(wb.submitted)
    /\ \A e \in 1..Len(wb.submitted) : \E i \in 1..Len(all) : all[i] = e
    /\ Increasing(wb.relayRx) /\ Increasing(wb.sendQueue)
    /\ wb.socket \in {"none", "connecting"} => wb.relayRx = <<>>
    /\ wb.socket = "open" => wb.sendQueue = <<>>
    /\ \A i \in 1..Len(wb.submitted) :
          wb.submitted[i].open => \E k \in 1..Len(wb.relayRx) : wb.relayRx[k] = wb.submitted[i].id

\* The socket opened with two envelopes queued, and one more was passed after.
C14_Witness ==
    /\ wb.socket = "open"
    /\ Len(wb.submitted) >= 3
    /\ ~wb.submitted[1].open /\ ~wb.submitted[2].open
    /\ wb.submitted[Len(wb.submitted)].open
    /\ Len(wb.relayRx) = Len(wb.submitted)

\* C16: the stroke list holds at most one stroke per stroke id.
C16_OneStrokePerId ==
    \A i, j \in 1..Len(wb.strokes) : i # j => wb.strokes[i] # wb.strokes[j]

\* C15: a connection request for a peer whose session is connecting,
\* pending_approval or connected, be it the local requestPeerConnection or an
\* inbound connection-request envelope, leaves the session's status, its
\* initiator flag and its transport object unchanged.
C15_DuplicateRequestNoOp ==
    [][\A n \in live, p \in Nodes :
          LET c == node[n].peerConnections[p]
              c2 == node'[n].peerConnections[p]
          IN  ( /\ hist'.ev \in {Event("connection-request", n, p, 0), Event("request", n, p, 0)}
                /\ c.status \in {"connecting", "pending_approval", "connected"} )
              => (c2.status = c.status /\ c2.isInitiator = c.isInitiator /\ c2.peer = c.peer)]_vars

\* C17: the step in which the operator accepts a session that is
\* pending_approval moves it to connecting (never to failed) and creates a
\* non-initiator transport object for it.
C17_AcceptProceeds ==
    [][\A n \in live, p \in Nodes :
          LET c == node[n].peerConnections[p]
              c2 == node'[n].peerConnections[p]
          IN  (hist'.ev = Event("accept", n, p, 0) /\ c.status = "pending_approval")
              => /\ c2.status = "connecting"
                 /\ c2.peer # 0
                 /\ ~node'[n].objs[p][c2.peer].initiator]_vars

\* C18: while the session for a requester is pending_approval on the
\* receiving side, no step other than the local accept creates a transport
\* object for the requester, and the session holds no transport object.
C18_NoApprovalBypass ==
    [][\A n \in live, p \in Nodes :
          LET c == node[n].peerConnections[p] IN
          (c.status = "pending_approval" /\ ~c.isInitiator)
          => /\ c.peer = 0
             /\ hist'.ev # Event("accept", n, p, 0)
                   => Len(node'[n].objs[p]) = Len(node[n].objs[p])]_vars

\* Budget of the approval specification: envelopes the remote peers send.
ApproveSignals == 4

\* What a remote requester sends through the relay: the request, its offer
\* and a connectivity candidate.
RequesterEnvelopes(p) ==
    { Envelope("connection-request", p, FALSE, 0), Envelope("offer", p, FALSE, 1),
      Envelope("ice-candidate", p, FALSE, 1) }

\* B receives the requests of the remote peers A and C and its operator accepts.
ApproveInit ==
    /\ CodecIdle /\ NetIdle
    /\ live = {"B"}
    /\ budget = Budget(ApproveSignals, 0, 0, 0, 0, 0, 0)
    /\ wb = BoardIdle

ApproveNext ==
    \/ \E p \in Nodes : EnvSignal("B", p, RequesterEnvelopes(p))
    \/ \E p \in Nodes : AcceptRequest("B", p)
    \/ \E p \in Nodes, k \in 1..MaxObjs : ObjSignal("B", p, k)
    \/ \E p \in Nodes, k \in 1..MaxObjs : ObjConnect("B", p, k)
    \/ \E i \in 1..2 : FireTimer("B", i)
    \/ Render("B")

SpecApprove == ApproveInit /\ [][ApproveNext]_vars

\* C19: once the session with a peer is connected, a connectivity candidate
\* that the peer sent for it and that was received while the session existed
\* has been applied to the session's transport object.
C19_CandidateApplied ==
    \A n \in live, p \in Nodes :
        LET c == node[n].peerConnections[p] IN
        (<<n, p>> \in hist.candRx /\ c.status = "connected" /\ c.peer # 0)
            => node[n].objs[p][c.peer].cands >= 1

\* C20: a send loop that is about to send a chunk, with the session connected,
\* the data channel open and the message within the size limit, is not ended
\* as failed by that step: a failure of the send leads to the retry.
C20_FailureRetried ==
    [][\A n \in live, j \in 1..MaxLoops :
          j <= Len(node[n].loops) =>
              LET l == node[n].loops[j]
                  c == node[n].peerConnectionsRef[l.peer]
              IN  ( /\ l.pc \in {"read", "drain"}
                    /\ c.status = "connected"
                    /\ ChannelOpen(node[n], l.peer, c.peer)
                    /\ l.pc = "drain" => ChannelOpen(node[n], l.peer, l.obj)
                    /\ MessageSize(ChunkLen(l.fileSize, l.i)) <= MaxMessageSize )
                  => ~(node'[n].loops[j].pc = "done" /\ node'[n].loops[j].outcome = "failed")]_vars

\* Budget of the backpressure specification: resumptions of a send loop that
\* find the buffer above the high-water mark or a send that throws.
DrainFaults == 31

\* The state of B after it announced a file of two chunks to A and A
\* accepted: one send loop is about to start.
DrainNode ==
    LET s0 == ConnectedNode("B", {"A"})
        s1 == Click(sendFile(s0, 1, FILE_CHUNK_SIZE + 1))
        s2 == handlePeerData(s1, "A", FileAcceptedMsg(1))
    IN  RenderNode([s2 EXCEPT !.sig = <<>>, !.tx = <<>>])

\* B streams a file of two chunks to A while the data channel drains slowly.
DrainInit ==
    /\ CodecIdle
    /\ live = {"B"}
    /\ node = [n \in Nodes |-> IF n = "B" THEN DrainNode ELSE InitNode(n)]
    /\ wire = [pr \in Pairs |-> <<>>]
    /\ chan = [pr \in Pairs |-> <<>>]
    /\ hist = HistInit
    /\ budget = Budget(0, 0, 0, 0, DrainFaults, 0, 0)
    /\ wb = BoardIdle

DrainNext ==
    \/ \E j \in 1..MaxLoops : LoopStep("B", j)
    \/ Render("B")

SpecDrain == DrainInit /\ [][DrainNext]_vars

\* C21: a resumption of a send loop that ends the bounded wait for the buffer
\* to drain (the last of the 30 polls) and still finds the buffer above the
\* low-water mark sends no chunk and ends the loop as failed.
C21_DrainTimeoutFails ==
    [][\A n \in live, j \in 1..MaxLoops :
          j <= Len(node[n].loops) =>
              LET l == node[n].loops[j]
                  l2 == node'[n].loops[j]
              IN  ( /\ l.pc = "drain" /\ l.waitCount + 1 >= DrainWaitLimit
                    /\ l2 # l
                    /\ hist'.ev = Event("loop-high", n, l.peer, l.fileId) )
                  => (l2.emitted = l.emitted /\ l2.pc = "done" /\ l2.outcome = "failed")]_vars

\* Budgets of the lookup specification: connection requests A makes and
\* envelopes the relay sends back.
LookupRequests == 2
LookupSignals == 3

\* What the relay answers to a connection request for p: the peer was found,
\* or the error "Peer p not found or offline".
LookupEnvelopes(p) == { Envelope("peer-found", p, FALSE, 0), Envelope("error", p, TRUE, 0) }

\* A asks the relay for the remote peers B and C, by the page address or by
\* the Connect button.
LookupInit ==
    /\ CodecIdle /\ NetIdle
    /\ live = {"A"}
    /\ budget = Budget(LookupSignals, 0, 0, 0, 0, LookupRequests, 0)
    /\ wb = BoardIdle

LookupNext ==
    \/ \E p \in Nodes : LinkConnect("A", p)
    \/ \E p \in Nodes : RequestConnect("A", p)
    \/ \E p \in Nodes : EnvSignal("A", p, LookupEnvelopes(p))
    \/ \E p \in Nodes, k \in 1..MaxObjs : ObjSignal("A", p, k)
    \/ Render("A")

SpecLookup == LookupInit /\ [][LookupNext]_vars

\* C22: a step that handles the relay's "not found or offline" error for a
\* peer whose session is connecting by a local request removes the session,
\* leaves no live transport object for the peer and clears the connecting
\* indicator for it.
C22_NotFoundCleansUp ==
    [][\A n \in live, p \in Nodes :
          ( /\ hist'.ev = Event("error", n, p, 0)
            /\ node[n].peerConnections[p].status = "connecting"
            /\ node[n].peerConnections[p].isInitiator )
          => /\ node'[n].peerConnections[p].status = "none"
             /\ \A k \in 1..Len(node'[n].objs[p]) : node'[n].objs[p][k].destroyed
             /\ node'[n].isConnectingPeer # p]_vars

\* C23: in the mesh specification every connection request is made from the
\* page address, with autoAccept = true; no initiator session ever takes the
\* status pending_approval.
C23_AutoAcceptNeverPending ==
    \A n \in live, p \in Nodes :
        ~( /\ node[n].peerConnections[p].isInitiator
           /\ node[n].peerConnections[p].status = "pending_approval" )

\* C24: a step in which a send loop returns, while no other loop of the same
\* file and recipient is running, does not leave the send record in the
\* status sending.
C24_NeverLeftSending ==
    [][\A n \in live, j \in 1..MaxLoops :
          j <= Len(node[n].loops) =>
              LET l == node[n].loops[j]
                  l2 == node'[n].loops[j]
              IN  ( /\ l.pc # "done" /\ l2.pc = "done"
                    /\ \A i \in 1..Len(node'[n].loops) :
                          (i # j /\ node'[n].loops[i].fileId = l.fileId
                                 /\ node'[n].loops[i].peer = l.peer)
                              => node'[n].loops[i].pc = "done" )
                  => node'[n].sendProgress[<<l.fileId, l.peer>>].status # "sending"]_vars

\* C25: a participant holds at most one transport object that is not
\* destroyed per remote peer id.
C25_OneTransportPerPeer ==
    \A n \in live, p \in Nodes :
        Cardinality({ k \in 1..Len(node[n].objs[p]) : ~node[n].objs[p][k].destroyed }) <= 1

\* The session of n for p is carried by a live transport object that n created
\* as initiator.
InitiatorSession(n, p) ==
    LET k == node[n].peerConnections[p].peer
    IN  /\ k # 0
        /\ ~ObjDead(node[n], p, k)
        /\ node[n].objs[p][k].initiator

\* Budget of the crossing specification: connection requests made.
CrossRequests == 2

\* A and B request a connection to each other.
CrossInit ==
    /\ CodecIdle /\ NetIdle
    /\ live = {"A", "B"}
    /\ budget = Budget(0, 0, 0, 0, 0, CrossRequests, 0)
    /\ wb = BoardIdle

CrossNext ==
    \/ RequestConnect("A", "B")
    \/ RequestConnect("B", "A")
    \/ \E n \in {"A", "B"}, p \in {"A", "B"} : DeliverSignal(n, p)
    \/ \E n \in {"A", "B"}, p \in {"A", "B"}, k \in 1..MaxObjs : ObjSignal(n, p, k)
    \/ \E n \in {"A", "B"}, p \in {"A", "B"}, k \in 1..MaxObjs : ObjConnect(n, p, k)
    \/ \E n \in {"A", "B"}, i \in 1..2 : FireTimer(n, i)
    \/ AcceptRequest("A", "B")
    \/ AcceptRequest("B", "A")
    \/ \E n \in {"A", "B"} : Render(n)

SpecCross == CrossInit /\ [][CrossNext]_vars

\* C26: no two participants hold initiator transport sessions for each other.
C26_NoDoubleInitiator ==
    \A n \in live, p \in live : ~(n # p /\ InitiatorSession(n, p) /\ InitiatorSession(p, n))

\* C27: for every file id and recipient a participant has started at most one
\* send loop.
C27_OneLoopPerTransfer ==
    \A n \in live, f \in FileIds, p \in Nodes :
        Cardinality({ j \in 1..Len(node[n].loops) :
                        node[n].loops[j].fileId = f /\ node[n].loops[j].peer = p }) <= 1

\* C28: a chunk buffer exists for a transfer key only while the receive
\* record of the key has the status receiving.
C28_BufferOnlyWhileReceiving ==
    \A n \in live, p \in Nodes, f \in FileIds :
        node[n].fileChunks[<<p, f>>].exists
            => node[n].receiveProgress[<<p, f>>].status = "receiving"

\* C29: a step that removes a session from the directory leaves no transport
\* object of that peer alive.
C29_RemovalDestroys ==
    [][\A n \in live, p \in Nodes :
          ( /\ node[n].peerConnections[p].status # "none"
            /\ node'[n].peerConnections[p].status = "none" )
          => \A k \in 1..Len(node'[n].objs[p]) : node'[n].objs[p][k].destroyed]_vars

\* peer.on('connect') on both ends of the channel to a joiner whose board is
\* empty: each side sends its strokes as a full-state message.
BoardPeerConnect ==
    /\ ~wb.linked /\ wb.peerBoard = <<>>
    /\ wb' = [wb EXCEPT !.linked = TRUE,
                         !.peerRx = Append(@, FullStateMsg(wb.strokesRef)),
                         !.rx = Append(@, FullStateMsg(wb.peerBoard))]
    /\ UNCHANGED << codecVars, netVars >>

\* peer.on('data') for the next message of the joiner.
BoardPeerDeliver ==
    /\ wb.rx # <<>> /\ wb.lag <= MaxLag
    /\ LET b == boardPeerData(wb, Head(wb.rx)) IN
          wb' = [b EXCEPT !.rx = Tail(@),
                          !.lag = IF b.strokes = b.strokesRef THEN 0 ELSE wb.lag + 1]
    /\ UNCHANGED << codecVars, netVars >>

\* The joiner handles the next message it was sent: full-state overwrites.
BoardPeerApply ==
    /\ wb.peerRx # <<>>
    /\ wb' = [wb EXCEPT !.peerRx = Tail(@),
                         !.peerBoard = boardPeerData([strokes |-> wb.peerBoard,
                                                      strokesRef |-> wb.peerBoard],
                                                     Head(wb.peerRx)).strokes]
    /\ UNCHANGED << codecVars, netVars >>

\* A board that receives strokes and is then joined by a peer with an empty
\* board.
JoinInit ==
    /\ CodecIdle /\ NetIdle
    /\ live = {}
    /\ budget = Budget(0, 0, 0, 0, 0, 0, 0)
    /\ wb = BoardIdle

JoinNext ==
    \/ BoardStroke
    \/ BoardRender
    \/ BoardPeerConnect
    \/ BoardPeerDeliver
    \/ BoardPeerApply

SpecJoin == JoinInit /\ [][JoinNext]_vars

\* C30: the step that handles the full-state message of a joiner whose board
\* was empty leaves the strokes of a board that holds strokes as they were.
C30_JoinKeepsStrokes ==
    [][( /\ wb.rx # <<>> /\ wb'.rx = Tail(wb.rx)
         /\ Head(wb.rx).type = "full-state" /\ Head(wb.rx).strokes = <<>>
         /\ wb.strokes # <<>> )
       => wb'.strokes = wb.strokes]_vars

====
